---- MODULE Spec2Model ----
(***************************************************************************)
(* Model of the SwearBot audio mixer (MultiAudioSource) and of the per-    *)
(* guild YouTube queue scheduler (balaambot.schedulers.youtube_jobs).      *)
(*                                                                         *)
(* One guild and its one mixer are modelled.  The audio thread calls       *)
(* read(); the event loop runs the scheduler's coroutines and the jobs     *)
(* the mixer hands to it through handle_callback.  Every method that takes *)
(* the mixer lock is one atomic step.  read() tests _stopped before it     *)
(* takes the lock, so it is two steps: ReadBegin and ReadMix.              *)
(***************************************************************************)
EXTENDS Integers, Sequences, FiniteSets, Bags, TLC

VARIABLES
    tracks,         \* MultiAudioSource._tracks : Seq(Track)
    sfx,            \* MultiAudioSource._sfx    : Seq(Track)
    stopped,        \* MultiAudioSource._stopped
    nextId,         \* the next fresh track id (uuid.uuid4())
    readPc,         \* position of the audio thread inside read()
    youtube_queue,  \* youtube_jobs.youtube_queue : guild id -> Seq(url)
    tasks,          \* bag of tasks created on vc.loop and not yet run
    out,            \* samples of the buffer the step just taken returned (<<>>: none)
    fired,          \* the tracks whose after_play the last operation triggered
    afterCount,     \* per track id: how often after_play was triggered
    adds,           \* add_to_queue calls made so far
    lastOp,         \* what the last operation was and how it ended
    files,          \* the files of the cache and download directories
    download_locks, \* download._download_locks : url -> holder of the lock
    metadata_cache, \* video id -> the metadata record cached for it
    calls,          \* the fetch_audio_pcm and prefetch calls under way
    mixers,         \* multi_audio_source._mixers : guild id -> mixer
    conns,          \* the voice clients created so far, in order
    ensured,        \* what the last ensure_connected / ensure_mixer did
    loop_jobs,      \* audio_sfx_jobs.loop_jobs : job id -> job
    job_tasks,      \* per job id: the state of its _play_sfx_loop task
    removers,       \* the remove_job calls made by the command layer
    normalise_audio,    \* MultiAudioSource.normalise_audio
    track_norm_factors  \* MultiAudioSource._track_norm_factors : id -> factor

vars == <<tracks, sfx, stopped, nextId, readPc, youtube_queue, tasks,
          out, fired, afterCount, adds, lastOp,
          files, download_locks, metadata_cache, calls,
          mixers, conns, ensured, loop_jobs, job_tasks, removers,
          normalise_audio, track_norm_factors>>

mixerVars == <<tracks, sfx, stopped, nextId>>

\* the state of the download pipeline
acqVars == <<files, download_locks, metadata_cache, calls>>

\* the mixer registry and the voice connections
regVars == <<mixers, conns, ensured>>

\* the sound-effect jobs
jobVars == <<loop_jobs, job_tasks, removers>>

\* the volume normalisation of the mixer
normVars == <<normalise_audio, track_norm_factors>>

\* the state of the mixer and of the event loop's tasks
playVars == <<tracks, sfx, stopped, nextId, readPc, tasks, out, fired,
              afterCount, adds, lastOp>>

-----------------------------------------------------------------------------
(* Bounds of the model *)

\* samples per chunk; the program uses CHUNK_SIZE // 2 = 1920
ChunkSamples == 2
\* tracks enqueued into the mixer over one behaviour
MaxEnq == 3
\* add_to_queue calls over one behaviour
MaxAdds == 3

-----------------------------------------------------------------------------
(* Program constants *)

MIN_VOLUME == -32768
MAX_VOLUME == 32767
BYTE_SIZE == 2
CHUNK_SIZE == ChunkSamples * BYTE_SIZE

\* the one guild of the model
gid == 1

-----------------------------------------------------------------------------
(* Inputs *)

\* the add_to_queue calls that are tried: "a" comes with a text channel that
\* can be sent to, "b" with none
AddInputs == {[url |-> "a", tc |-> TRUE], [url |-> "b", tc |-> FALSE]}

\* the PCM that fetching a url yields
PcmOf(url) == IF url = "a" THEN <<20000>> ELSE <<32767, -32768, 20000>>

\* a callback: nothing, a function that returns, a function that raises, or
\* the _before_play / _after_play closures of the scheduler (url, and tc:
\* whether text_channel names a channel that can be sent to)
Callback(kind, url, tc) == [kind |-> kind, url |-> url, tc |-> tc]
NoCallback == Callback("none", "-", FALSE)
OkCallback == Callback("ok", "-", FALSE)
RaisingCallback == Callback("raise", "-", FALSE)

\* the arguments of the play_pcm and play_file calls that are tried
Sound(samples, before_play, after_play) ==
    [samples |-> samples, before_play |-> before_play,
     after_play |-> after_play]
\* the tracks that are tried for the normalisation: silent ones among them
NormSounds ==
    { Sound(<<>>, NoCallback, NoCallback),
      Sound(<<0>>, NoCallback, NoCallback),
      Sound(<<0, 0, 0>>, NoCallback, OkCallback),
      Sound(<<20000, 20000>>, NoCallback, NoCallback),
      Sound(<<32767, -32768, 20000>>, NoCallback, NoCallback) }

Sounds ==
    { Sound(<<>>, NoCallback, OkCallback),
      Sound(<<20000>>, OkCallback, RaisingCallback),
      Sound(<<-20000, -20000>>, NoCallback, NoCallback),
      Sound(<<32767, -32768, 20000>>, NoCallback, OkCallback) }

-----------------------------------------------------------------------------
(* Helpers *)

Zeros(n) == [k \in 1..n |-> 0]

Max2(a, b) == IF a > b THEN a ELSE b
Min2(a, b) == IF a < b THEN a ELSE b

\* array('h').tobytes(): two bytes per sample
ByteLen(buf) == BYTE_SIZE * Len(buf)

Ids(list) == {list[k].id : k \in 1..Len(list)}

\* the tasks that vc.loop.create_task adds
Job(which, track) ==
    [type |-> "job", stage |-> which, id |-> track.id, cb |-> track[which]]
PlayNextTask(stage, url, tc) ==
    [type |-> "play_next", stage |-> stage, id |-> 0,
     cb |-> Callback("play_next", url, tc)]

\* the record of an operation: its name, whether it raised, whether an
\* exception left the mixer method it called, how many exceptions were
\* caught, the _play_next tasks it created, whether it announced the end of
\* the queue, the urls it popped, the tracks it dropped without a callback,
\* and (for an enqueue) _stopped as it was before
Op(name) ==
    [name |-> name, raised |-> FALSE, escaped |-> FALSE, caught |-> 0,
     scheduled |-> 0, announced |-> FALSE, popped |-> <<>>,
     dropped |-> <<>>, wasStopped |-> FALSE]

-----------------------------------------------------------------------------
(* MultiAudioSource *)

Track(id, samples, before_play, after_play) ==
    [id |-> id, samples |-> samples, pos |-> 0,
     before_play |-> before_play, after_play |-> after_play]

\* handle_callback: a task for the callback, when the track has one.  The
\* task of a _before_play closure of the scheduler is not kept: all it does
\* is send a chat message, it reads and writes nothing of this model.
HandleCallback(track, which) ==
    IF track[which].kind \in {"none", "before"} THEN <<>>
    ELSE <<Job(which, track)>>

\* the lookup of _mix_samples.  _track_norm_factors is filled by
\* _compute_normalisation_factor only, which nothing in the package calls:
\* in every specification with read() the lookup fails and the factor is 1.
NormFactor(track) ==
    IF normalise_audio /\ track.id \in DOMAIN track_norm_factors
    THEN track_norm_factors[track.id]
    ELSE 1

\* _track_norm_factors.pop(track["id"], None) for the tracks that finished
PopFactors(factors, finished) ==
    [id \in DOMAIN factors \ finished |-> factors[id]]

\* the ids of the tracks that a mixing pass has finished with
FinishedIds(mixed) ==
    (Ids(tracks) \cup Ids(sfx)) \ (Ids(mixed.new_tracks) \cup Ids(mixed.new_sfx))

\* max(MIN_VOLUME, min(int(s * norm_factor), MAX_VOLUME))
ClampSample(s, norm_factor) ==
    Max2(MIN_VOLUME, Min2(s * norm_factor, MAX_VOLUME))

\* a clamp that forgets the lower limit
ClipUpperOnly(val) == IF val > MAX_VOLUME THEN MAX_VOLUME ELSE val

\* the clamp of read(), on one slot of the accumulator
Clip(val) ==
    IF val > MAX_VOLUME THEN MAX_VOLUME
    ELSE IF val < MIN_VOLUME THEN MIN_VOLUME
    ELSE val

\* a pad that repeats the last sample instead of silence
PaddedHold(samples, end) ==
    IF end > Len(samples)
    THEN samples \o [k \in 1..(end - Len(samples)) |->
                       IF samples = <<>> THEN 0 ELSE samples[Len(samples)]]
    ELSE samples

\* the pad of _mix_samples: samples.extend(pad) when end > len(samples)
Padded(samples, end) ==
    IF end > Len(samples) THEN samples \o Zeros(end - Len(samples))
    ELSE samples

\* the end test with > for >=
FinishedStrict(end, samples) == end > Len(samples)

\* "if end >= len(samples)": the track is finished after this chunk
Finished(end, samples) == end >= Len(samples)

\* one pass of the loop of _mix_samples over track all[i]
RECURSIVE MixLoop(_, _, _, _, _)
MixLoop(all, oldTracks, oldSfx, i, acc) ==
    IF i > Len(all) THEN acc
    ELSE
      LET track == all[i]
          pos == track.pos
          end == pos + ChunkSamples
          samples == Padded(track.samples, end)
          chunk == SubSeq(samples, pos + 1, end)
          moved == [track EXCEPT !.samples = samples, !.pos = end]
          before == IF pos = 0 THEN HandleCallback(track, "before_play")
                    ELSE <<>>
          finished == Finished(end, samples)
          total == [k \in 1..ChunkSamples |->
                      acc.total[k] + ClampSample(chunk[k], NormFactor(track))]
      IN  MixLoop(all, oldTracks, oldSfx, i + 1,
            [total |-> total,
             new_tracks |->
                IF ~finished /\ track.id \in Ids(oldTracks)
                THEN Append(acc.new_tracks, moved) ELSE acc.new_tracks,
             new_sfx |->
                IF ~finished /\ track.id \in Ids(oldSfx)
                THEN Append(acc.new_sfx, moved) ELSE acc.new_sfx,
             jobs |->
                acc.jobs \o before \o
                (IF finished THEN HandleCallback(track, "after_play")
                 ELSE <<>>),
             fired |->
                IF finished /\ track.after_play.kind # "none"
                THEN Append(acc.fired, track) ELSE acc.fired])

\* a pass that moves the sustained tracks on and removes none of them
MixSamplesKeepsTracks(ts, fx) ==
    [MixLoop(ts \o fx, ts, fx, 1,
             [total |-> Zeros(ChunkSamples), new_tracks |-> <<>>,
              new_sfx |-> <<>>, jobs |-> <<>>, fired |-> <<>>])
       EXCEPT !.new_tracks =
          [k \in 1..Len(ts) |->
              [ts[k] EXCEPT !.samples = Padded(@, ts[k].pos + ChunkSamples),
                            !.pos = @ + ChunkSamples]]]

MixSamples(ts, fx) ==
    MixLoop(ts \o fx, ts, fx, 1,
            [total |-> Zeros(ChunkSamples), new_tracks |-> <<>>,
             new_sfx |-> <<>>, jobs |-> <<>>, fired |-> <<>>])

RECURSIVE SeqToBag(_)
SeqToBag(s) ==
    IF s = <<>> THEN EmptyBag ELSE SetToBag({Head(s)}) (+) SeqToBag(Tail(s))

Bump(count, called) ==
    [t \in DOMAIN count |->
        count[t] + Cardinality({k \in 1..Len(called) : called[k].id = t})]

\* read() that goes on to mix whether or not the mixer is paused
ReadBeginIgnoresPause ==
    /\ readPc = "idle"
    /\ readPc' = "mix"
    /\ UNCHANGED <<mixerVars, youtube_queue, tasks, out, fired, afterCount,
                   adds, lastOp>>
    /\ UNCHANGED <<acqVars, regVars, jobVars, normVars>>

\* read(), first half: the test of is_stopped, made without the lock
ReadBegin ==
    /\ readPc = "idle"
    /\ IF stopped
       THEN /\ out' = <<>>
            /\ fired' = <<>>
            /\ lastOp' = Op("read_stopped")
            /\ UNCHANGED readPc
       ELSE /\ readPc' = "mix"
            /\ UNCHANGED <<out, fired, lastOp>>
    /\ UNCHANGED <<mixerVars, youtube_queue, tasks, afterCount, adds>>
    /\ UNCHANGED <<acqVars, regVars, jobVars, normVars>>

\* read(), second half: _mix_samples under the lock, then the clamp
ReadMix ==
    /\ readPc = "mix"
    /\ LET mixed == MixSamples(tracks, sfx)
       IN  /\ tracks' = mixed.new_tracks
           /\ sfx' = mixed.new_sfx
           /\ tasks' = tasks (+) SeqToBag(mixed.jobs)
           /\ out' = [k \in 1..ChunkSamples |-> Clip(mixed.total[k])]
           /\ fired' = mixed.fired
           /\ afterCount' = Bump(afterCount, mixed.fired)
           /\ track_norm_factors' =
                 PopFactors(track_norm_factors, FinishedIds(mixed))
    /\ readPc' = "idle"
    /\ lastOp' = Op("read")
    /\ UNCHANGED <<stopped, nextId, youtube_queue, adds, normalise_audio>>
    /\ UNCHANGED <<acqVars, regVars, jobVars>>

\* read() as one step: with no pause() between its test of is_stopped and
\* its mixing pass
Read ==
    /\ readPc = "idle"
    /\ IF stopped
       THEN /\ out' = <<>>
            /\ fired' = <<>>
            /\ lastOp' = Op("read_stopped")
            /\ UNCHANGED <<tracks, sfx, tasks, afterCount, adds,
                           track_norm_factors>>
       ELSE LET mixed == MixSamples(tracks, sfx)
            IN  /\ tracks' = mixed.new_tracks
                /\ sfx' = mixed.new_sfx
                /\ tasks' = tasks (+) SeqToBag(mixed.jobs)
                /\ out' = [k \in 1..ChunkSamples |-> Clip(mixed.total[k])]
                /\ fired' = mixed.fired
                /\ afterCount' = Bump(afterCount, mixed.fired)
                /\ lastOp' = Op("read")
                /\ track_norm_factors' =
                      PopFactors(track_norm_factors, FinishedIds(mixed))
    /\ UNCHANGED <<stopped, nextId, readPc, youtube_queue, adds,
                   normalise_audio>>
    /\ UNCHANGED <<acqVars, regVars, jobVars>>

\* resume()
Resume ==
    /\ stopped' = FALSE
    /\ fired' = <<>>
    /\ lastOp' = Op("resume")
    /\ out' = <<>>
    /\ UNCHANGED <<tracks, sfx, nextId, readPc, youtube_queue, tasks,
                   afterCount, adds>>
    /\ UNCHANGED <<acqVars, regVars, jobVars, normVars>>

\* pause()
Pause ==
    /\ stopped' = TRUE
    /\ fired' = <<>>
    /\ lastOp' = Op("pause")
    /\ out' = <<>>
    /\ UNCHANGED <<tracks, sfx, nextId, readPc, youtube_queue, tasks,
                   afterCount, adds>>
    /\ UNCHANGED <<acqVars, regVars, jobVars, normVars>>

\* a clear_sfx() that empties both collections
ClearSfxAndTracks ==
    /\ sfx' = <<>>
    /\ tracks' = <<>>
    /\ fired' = <<>>
    /\ lastOp' = [Op("clear_sfx") EXCEPT !.dropped = sfx]
    /\ out' = <<>>
    /\ UNCHANGED <<stopped, nextId, readPc, youtube_queue, tasks,
                   afterCount, adds>>
    /\ UNCHANGED <<acqVars, regVars, jobVars, normVars>>

\* clear_sfx()
ClearSfx ==
    /\ sfx' = <<>>
    /\ fired' = <<>>
    /\ lastOp' = [Op("clear_sfx") EXCEPT !.dropped = sfx]
    /\ out' = <<>>
    /\ UNCHANGED <<tracks, stopped, nextId, readPc, youtube_queue, tasks,
                   afterCount, adds>>
    /\ UNCHANGED <<acqVars, regVars, jobVars, normVars>>

\* clear_tracks(): the clear, then pause()
ClearTracks ==
    /\ tracks' = <<>>
    /\ stopped' = TRUE
    /\ fired' = <<>>
    /\ lastOp' = [Op("clear_tracks") EXCEPT !.dropped = tracks]
    /\ out' = <<>>
    /\ UNCHANGED <<sfx, nextId, readPc, youtube_queue, tasks,
                   afterCount, adds>>
    /\ UNCHANGED <<acqVars, regVars, jobVars, normVars>>

\* an append whose result holds the new track alone
EnqueueAlone(list, samples, before_play, after_play) ==
    <<Track(nextId, samples, before_play, after_play)>>

\* the append of play_pcm / play_file
Enqueue(list, samples, before_play, after_play) ==
    Append(list, Track(nextId, samples, before_play, after_play))

\* play_pcm(file_path, before_play, after_play); found: file_path.is_file()
PlayPcm(samples, before_play, after_play, found) ==
    /\ nextId <= MaxEnq
    /\ IF found
       THEN /\ tracks' = Enqueue(tracks, samples, before_play, after_play)
            /\ stopped' = FALSE
            /\ nextId' = nextId + 1
            /\ lastOp' = [Op("play_pcm") EXCEPT !.wasStopped = stopped]
       ELSE /\ lastOp' = [Op("play_pcm") EXCEPT !.raised = TRUE]
            /\ UNCHANGED <<tracks, stopped, nextId>>
    /\ fired' = <<>>
    /\ out' = <<>>
    /\ UNCHANGED <<sfx, readPc, youtube_queue, tasks, afterCount, adds>>
    /\ UNCHANGED <<acqVars, regVars, jobVars, normVars>>

\* a play_file() that forgets resume()
PlayFileNoResume(samples, before_play, after_play, decoded) ==
    /\ nextId <= MaxEnq
    /\ IF decoded
       THEN /\ sfx' = Enqueue(sfx, samples, before_play, after_play)
            /\ nextId' = nextId + 1
            /\ lastOp' = [Op("play_file") EXCEPT !.wasStopped = stopped]
            /\ UNCHANGED stopped
       ELSE /\ lastOp' = [Op("play_file") EXCEPT !.raised = TRUE]
            /\ UNCHANGED <<sfx, stopped, nextId>>
    /\ fired' = <<>>
    /\ out' = <<>>
    /\ UNCHANGED <<tracks, readPc, youtube_queue, tasks, afterCount,
                   adds>>
    /\ UNCHANGED <<acqVars, regVars, jobVars, normVars>>

\* play_file(filename, before_play, after_play); decoded: the file exists,
\* ffmpeg is installed and exits with 0
PlayFile(samples, before_play, after_play, decoded) ==
    /\ nextId <= MaxEnq
    /\ IF decoded
       THEN /\ sfx' = Enqueue(sfx, samples, before_play, after_play)
            /\ stopped' = FALSE
            /\ nextId' = nextId + 1
            /\ lastOp' = [Op("play_file") EXCEPT !.wasStopped = stopped]
       ELSE /\ lastOp' = [Op("play_file") EXCEPT !.raised = TRUE]
            /\ UNCHANGED <<sfx, stopped, nextId>>
    /\ fired' = <<>>
    /\ out' = <<>>
    /\ UNCHANGED <<tracks, readPc, youtube_queue, tasks, afterCount, adds>>
    /\ UNCHANGED <<acqVars, regVars, jobVars, normVars>>

\* an _after_play that schedules no _play_next
AfterPlayNoPlayNext(cb, ctx) ==
    IF gid \notin DOMAIN ctx.queue
    THEN [ctx EXCEPT !.exc = TRUE]
    ELSE
      LET queue == ctx.queue[gid]
          rest == Tail(queue)
      IN  [ctx EXCEPT
             !.queue = IF rest = <<>>
                       THEN [g \in DOMAIN ctx.queue \ {gid} |-> ctx.queue[g]]
                       ELSE [ctx.queue EXCEPT ![gid] = rest],
             !.announced = ctx.announced \/ (rest = <<>> /\ cb.tc),
             !.popped = Append(ctx.popped, Head(queue)),
             !.exc = FALSE]

\* the body of _after_play(url, text_channel) on the scheduler's state ctx
AfterPlay(cb, ctx) ==
    IF gid \notin DOMAIN ctx.queue
    THEN [ctx EXCEPT !.exc = TRUE]
    ELSE
      LET queue == ctx.queue[gid]
          rest == Tail(queue)
      IN  [ctx EXCEPT
             !.queue = IF rest = <<>>
                       THEN [g \in DOMAIN ctx.queue \ {gid} |-> ctx.queue[g]]
                       ELSE [ctx.queue EXCEPT ![gid] = rest],
             !.announced = ctx.announced \/ (rest = <<>> /\ cb.tc),
             !.popped = Append(ctx.popped, Head(queue)),
             !.tasks = ctx.tasks (+) SetToBag({PlayNextTask("new", "-", FALSE)}),
             !.scheduled = ctx.scheduled + 1,
             !.exc = FALSE]

\* callback(): what calling a track's callback does
CallCallback(cb, ctx) ==
    CASE cb.kind = "after" -> AfterPlay(cb, ctx)
      [] cb.kind = "raise" -> [ctx EXCEPT !.exc = TRUE]
      [] OTHER -> [ctx EXCEPT !.exc = FALSE]

Context(queue, bag) ==
    [queue |-> queue, tasks |-> bag, announced |-> FALSE, popped |-> <<>>,
     scheduled |-> 0, exc |-> FALSE, caught |-> 0, fired |-> <<>>,
     left |-> <<>>]

\* skip_current_tracks(): the loop that pops each track and calls its
\* after_play inside try / except
\* callback() without the try / except: its exception leaves the loop
TryCallbackNoExcept(track, ctx) ==
    LET called == CallCallback(track.after_play, ctx)
    IN  [called EXCEPT !.fired = Append(ctx.fired, track)]

\* the try / except around callback() in skip_current_tracks: an exception
\* of the callback is logged and goes no further
TryCallback(track, ctx) ==
    LET called == CallCallback(track.after_play, ctx)
    IN  [called EXCEPT
           !.fired = Append(ctx.fired, track),
           !.caught = ctx.caught + (IF called.exc THEN 1 ELSE 0),
           !.exc = FALSE]

\* the while loop of skip_current_tracks: it ends when _tracks is empty, or
\* when an exception leaves it
RECURSIVE SkipCurrentTracks(_, _)
SkipCurrentTracks(ts, ctx) ==
    IF ts = <<>> \/ ctx.exc THEN [ctx EXCEPT !.left = ts]
    ELSE
      LET track == Head(ts)
      IN  IF track.after_play.kind = "none"
          THEN SkipCurrentTracks(Tail(ts), ctx)
          ELSE SkipCurrentTracks(Tail(ts), TryCallback(track, ctx))

OpOf(name, ctx) ==
    [Op(name) EXCEPT
       !.raised = ctx.exc, !.caught = ctx.caught,
       !.scheduled = ctx.scheduled, !.announced = ctx.announced,
       !.popped = ctx.popped]

\* NORMALISATION_APPROACH: "std_dev" in the class, "max" the alternative that
\* the method implements
Approaches == {"max", "std_dev"}

Abs(x) == IF x < 0 THEN -x ELSE x

\* max([abs(s) for s in samples]), of samples that are not empty
Peak(samples) ==
    CHOOSE m \in {Abs(samples[k]) : k \in 1..Len(samples)} :
        \A k \in 1..Len(samples) : Abs(samples[k]) <= m

\* std_dev = sqrt(sum((s - mean) ** 2) / len) is 0.0 exactly when every
\* sample is the mean: when the samples are all the same
StdDevIsZero(samples) ==
    \A j, k \in 1..Len(samples) : samples[j] = samples[k]

\* the factor TARGET_VOLUME * MAX_VOLUME / divisor, kept as its terms: the
\* divisor is the peak, or three standard deviations of the samples
Factor(approach, samples) ==
    [approach |-> approach,
     divisor |-> IF approach = "max" THEN <<Peak(samples)>> ELSE samples]

\* the value that _compute_normalisation_factor computes for the samples of
\* a track, or the exception it raises.  "max": max() of an empty list is a
\* ValueError, and a peak of 0 divides by zero.  "std_dev": the mean of no
\* samples divides by len = 0, and a standard deviation of 0.0 divides by
\* zero.
ComputeFactor(samples, approach) ==
    IF approach = "max"
    THEN IF samples = <<>> THEN [raised |-> "ValueError", factor |-> <<>>]
         ELSE IF Peak(samples) = 0
              THEN [raised |-> "ZeroDivisionError", factor |-> <<>>]
              ELSE [raised |-> "none", factor |-> Factor(approach, samples)]
    ELSE IF samples = <<>> \/ StdDevIsZero(samples)
         THEN [raised |-> "ZeroDivisionError", factor |-> <<>>]
         ELSE [raised |-> "none", factor |-> Factor(approach, samples)]

\* _compute_normalisation_factor(track), on track k of the mixer, with the
\* class attribute NORMALISATION_APPROACH as given.  No method of the mixer
\* calls it: it is part of no specification but the one of the
\* normalisation, where it is called from outside.
ComputeNormalisationFactor(k, approach) ==
    /\ k \in 1..Len(tracks \o sfx)
    /\ LET track == (tracks \o sfx)[k]
           computed == ComputeFactor(track.samples, approach)
       IN  IF computed.raised = "none"
           THEN /\ track_norm_factors' =
                     [id \in DOMAIN track_norm_factors \cup {track.id} |->
                         IF id = track.id THEN computed.factor
                         ELSE track_norm_factors[id]]
                /\ lastOp' = Op("compute_normalisation_factor")
           ELSE /\ lastOp' = [Op("compute_normalisation_factor")
                                 EXCEPT !.raised = TRUE]
                /\ UNCHANGED track_norm_factors
    /\ fired' = <<>>
    /\ out' = <<>>
    /\ UNCHANGED <<mixerVars, readPc, youtube_queue, tasks, afterCount, adds,
                   normalise_audio>>
    /\ UNCHANGED <<acqVars, regVars, jobVars>>

-----------------------------------------------------------------------------
(* youtube_jobs *)

\* an add_to_queue that starts playback on every call
AddToQueueAlwaysSpawns(url, tc) ==
    /\ adds < MaxAdds
    /\ adds' = adds + 1
    /\ youtube_queue' =
         IF gid \in DOMAIN youtube_queue
         THEN [youtube_queue EXCEPT ![gid] = Append(@, url)]
         ELSE (gid :> <<url>>) @@ youtube_queue
    /\ tasks' = tasks (+) SetToBag({PlayNextTask("new", "-", tc)})
    /\ lastOp' = [Op("add_to_queue") EXCEPT !.scheduled = 1]
    /\ fired' = <<>>
    /\ out' = <<>>
    /\ UNCHANGED <<mixerVars, readPc, afterCount>>
    /\ UNCHANGED <<acqVars, regVars, jobVars, normVars>>

\* add_to_queue(vc, url, text_channel)
AddToQueue(url, tc) ==
    /\ adds < MaxAdds
    /\ adds' = adds + 1
    /\ IF gid \in DOMAIN youtube_queue
       THEN /\ youtube_queue' =
                 [youtube_queue EXCEPT ![gid] = Append(@, url)]
            /\ tasks' = tasks
            /\ lastOp' = Op("add_to_queue")
       ELSE /\ youtube_queue' = (gid :> <<url>>) @@ youtube_queue
            /\ tasks' = tasks (+) SetToBag({PlayNextTask("new", "-", tc)})
            /\ lastOp' = [Op("add_to_queue") EXCEPT !.scheduled = 1]
    /\ fired' = <<>>
    /\ out' = <<>>
    /\ UNCHANGED <<mixerVars, readPc, afterCount>>
    /\ UNCHANGED <<acqVars, regVars, jobVars, normVars>>

\* _play_next(vc, text_channel) up to "await mixer.play_youtube"
PlayNextStart(t) ==
    /\ BagIn(t, tasks)
    /\ t.type = "play_next" /\ t.stage = "new"
    /\ IF gid \in DOMAIN youtube_queue
       THEN /\ tasks' = (tasks (-) SetToBag({t})) (+)
                 SetToBag({PlayNextTask("fetching",
                                        youtube_queue[gid][1], t.cb.tc)})
            /\ UNCHANGED youtube_queue
       ELSE /\ tasks' = tasks (-) SetToBag({t})
            /\ UNCHANGED youtube_queue
    /\ fired' = <<>>
    /\ lastOp' = Op("play_next_start")
    /\ out' = <<>>
    /\ UNCHANGED <<mixerVars, readPc, afterCount, adds>>
    /\ UNCHANGED <<acqVars, regVars, jobVars, normVars>>

\* a _play_next that on a failure takes only the head off the queue
PlayNextFinishDropsHeadOnly(t, played) ==
    /\ BagIn(t, tasks)
    /\ t.type = "play_next" /\ t.stage = "fetching"
    /\ tasks' = tasks (-) SetToBag({t})
    /\ IF played
       THEN /\ nextId <= 2 * MaxAdds
            /\ tracks' = Enqueue(tracks, PcmOf(t.cb.url),
                                 Callback("before", t.cb.url, t.cb.tc),
                                 Callback("after", t.cb.url, t.cb.tc))
            /\ stopped' = FALSE
            /\ nextId' = nextId + 1
            /\ lastOp' = [Op("play_next") EXCEPT !.wasStopped = stopped]
            /\ UNCHANGED youtube_queue
       ELSE /\ youtube_queue' =
                 [g \in DOMAIN youtube_queue |-> Tail(youtube_queue[g])]
            /\ lastOp' = [Op("play_next") EXCEPT
                            !.caught = 1,
                            !.popped = IF gid \in DOMAIN youtube_queue
                                       THEN youtube_queue[gid] ELSE <<>>]
            /\ UNCHANGED <<tracks, stopped, nextId>>
    /\ fired' = <<>>
    /\ out' = <<>>
    /\ UNCHANGED <<sfx, readPc, afterCount, adds>>
    /\ UNCHANGED <<acqVars, regVars, jobVars, normVars>>

\* _play_next from the return of play_youtube on; played: the fetch and the
\* enqueue succeeded, else the except branch drops the queue of the guild
PlayNextFinish(t, played) ==
    /\ BagIn(t, tasks)
    /\ t.type = "play_next" /\ t.stage = "fetching"
    /\ tasks' = tasks (-) SetToBag({t})
    /\ IF played
       THEN /\ nextId <= 2 * MaxAdds
            /\ tracks' = Enqueue(tracks, PcmOf(t.cb.url),
                                 Callback("before", t.cb.url, t.cb.tc),
                                 Callback("after", t.cb.url, t.cb.tc))
            /\ stopped' = FALSE
            /\ nextId' = nextId + 1
            /\ lastOp' = [Op("play_next") EXCEPT !.wasStopped = stopped]
            /\ UNCHANGED youtube_queue
       ELSE /\ youtube_queue' =
                 [g \in DOMAIN youtube_queue \ {gid} |-> youtube_queue[g]]
            /\ lastOp' = [Op("play_next") EXCEPT
                            !.caught = 1,
                            !.popped = IF gid \in DOMAIN youtube_queue
                                       THEN youtube_queue[gid] ELSE <<>>]
            /\ UNCHANGED <<tracks, stopped, nextId>>
    /\ fired' = <<>>
    /\ out' = <<>>
    /\ UNCHANGED <<sfx, readPc, afterCount, adds>>
    /\ UNCHANGED <<acqVars, regVars, jobVars, normVars>>

\* a job of handle_callback runs: asyncio.to_thread(callback)
RunJob(t) ==
    /\ BagIn(t, tasks)
    /\ t.type = "job"
    /\ LET ctx == CallCallback(t.cb,
                    Context(youtube_queue, tasks (-) SetToBag({t})))
       IN  /\ youtube_queue' = ctx.queue
           /\ tasks' = ctx.tasks
           /\ lastOp' = [OpOf("job", ctx) EXCEPT
                           !.name = IF t.cb.kind = "after"
                                    THEN "after_play" ELSE "job"]
    /\ fired' = <<>>
    /\ out' = <<>>
    /\ UNCHANGED <<mixerVars, readPc, afterCount, adds>>
    /\ UNCHANGED <<acqVars, regVars, jobVars, normVars>>

\* skip(vc): skip_current_tracks() inside try / except
Skip ==
    /\ LET ctx == SkipCurrentTracks(tracks, Context(youtube_queue, tasks))
       IN  /\ tracks' = ctx.left
           /\ youtube_queue' = ctx.queue
           /\ tasks' = ctx.tasks
           /\ fired' = ctx.fired
           /\ afterCount' = Bump(afterCount, ctx.fired)
           /\ lastOp' = [OpOf("skip", ctx) EXCEPT
                           !.raised = FALSE,
                           !.escaped = ctx.exc,
                           !.caught = ctx.caught + (IF ctx.exc THEN 1 ELSE 0)]
    /\ out' = <<>>
    /\ UNCHANGED <<sfx, stopped, nextId, readPc, adds>>
    /\ UNCHANGED <<acqVars, regVars, jobVars, normVars>>

\* a clear_queue(vc) that drops the queue of the guild altogether
ClearQueueDropsAll ==
    /\ youtube_queue' =
         [g \in DOMAIN youtube_queue \ {gid} |-> youtube_queue[g]]
    /\ fired' = <<>>
    /\ lastOp' = Op("clear_queue")
    /\ out' = <<>>
    /\ UNCHANGED <<mixerVars, readPc, tasks, afterCount, adds>>
    /\ UNCHANGED <<acqVars, regVars, jobVars, normVars>>

\* clear_queue(vc)
ClearQueue ==
    /\ youtube_queue' =
         [g \in DOMAIN youtube_queue |-> SubSeq(youtube_queue[g], 1, 1)]
    /\ fired' = <<>>
    /\ lastOp' = [Op("clear_queue") EXCEPT
                    !.popped = IF gid \in DOMAIN youtube_queue
                               THEN SubSeq(youtube_queue[gid], 2,
                                           Len(youtube_queue[gid]))
                               ELSE <<>>]
    /\ out' = <<>>
    /\ UNCHANGED <<mixerVars, readPc, tasks, afterCount, adds>>
    /\ UNCHANGED <<acqVars, regVars, jobVars, normVars>>

\* what can go wrong inside the try of stop(vc).  clear_tracks() empties
\* _tracks in its first statement, so if it raises it does so after that and
\* before its own pause(); a pause() that raises has not set _stopped.
StopFaults == {"none", "clear_tracks", "pause"}

\* a stop(vc) whose queue removal is skipped when the mixer raises
StopKeepsQueueOnError(fault) ==
    /\ tracks' = <<>>
    /\ stopped' = IF fault = "clear_tracks" THEN stopped ELSE TRUE
    /\ youtube_queue' =
         IF fault = "none"
         THEN [g \in DOMAIN youtube_queue \ {gid} |-> youtube_queue[g]]
         ELSE youtube_queue
    /\ fired' = <<>>
    /\ lastOp' = [Op("stop") EXCEPT
                    !.dropped = tracks,
                    !.caught = IF fault = "none" THEN 0 ELSE 1]
    /\ out' = <<>>
    /\ UNCHANGED <<sfx, nextId, readPc, tasks, afterCount, adds>>
    /\ UNCHANGED <<acqVars, regVars, jobVars, normVars>>

\* stop(vc): clear_tracks() and pause() inside try / except, then the queue
\* of the guild is dropped
Stop(fault) ==
    /\ tracks' = <<>>
    /\ stopped' = IF fault = "clear_tracks" THEN stopped ELSE TRUE
    /\ youtube_queue' =
         [g \in DOMAIN youtube_queue \ {gid} |-> youtube_queue[g]]
    /\ fired' = <<>>
    /\ lastOp' = [Op("stop") EXCEPT
                    !.dropped = tracks,
                    !.caught = IF fault = "none" THEN 0 ELSE 1]
    /\ out' = <<>>
    /\ UNCHANGED <<sfx, nextId, readPc, tasks, afterCount, adds>>
    /\ UNCHANGED <<acqVars, regVars, jobVars, normVars>>

-----------------------------------------------------------------------------
(* balaambot.youtube: the download pipeline                                *)
(*                                                                         *)
(* fetch_audio_pcm runs on the event loop; it is suspended while it waits  *)
(* for the lock of its url, for the downloader, for the metadata query and *)
(* for the transcoder.  _maybe_preload_next_tracks runs download_and_      *)
(* convert in an executor, one url after the other.  A file is the set of  *)
(* the transcoders that still write to it: it is complete when the set is  *)
(* empty.                                                                  *)

\* fetch and prefetch calls over one behaviour
MaxCalls == 2
\* the longest queue that a prefetch is started on
MaxQueueLen == 5

QUEUE_FORESIGHT == 3

Procs == 1..MaxCalls

\* "a" and "a_short" are two spellings of the url of one video
Urls == {"a", "a_short", "b"}

\* get_video_id: the 11 characters that _YT_ID_RE captures
GetVideoId(url) == IF url = "b" THEN "B" ELSE "A"

\* DEFAULT_SAMPLE_RATE and DEFAULT_CHANNELS, as they appear in a file name
DefaultFormat == "48000Hz_2ch"
Formats == {DefaultFormat, "44100Hz_1ch"}

\* get_cache_path: audio_cache_dir / "{vid}_{rate}Hz_{channels}ch.pcm"
GetCachePath(url, fmt) == <<"cached", GetVideoId(url), fmt, "pcm">>

\* get_temp_paths: audio_tmp_dir / "{vid}.opus.part" and "{vid}.pcm.part"
GetTempPaths(url) ==
    [opus |-> <<"downloading", GetVideoId(url), "opus", "part">>,
     pcm |-> <<"downloading", GetVideoId(url), "pcm", "part">>]

\* Path.with_suffix: the last suffix is replaced
WithSuffix(path, suffix) == [path EXCEPT ![4] = suffix]

\* the file the downloader is expected to leave: "{vid}.opus.opus"
FinalOpus(url) == WithSuffix(GetTempPaths(url).opus, "opus")

\* the files: a path that exists is mapped to the writers of its content
Unlink(f, path) == [q \in DOMAIN f \ {path} |-> f[q]]
Replace(f, src, dst) ==
    [q \in (DOMAIN f \ {src}) \cup {dst} |-> IF q = dst THEN f[src] ELSE f[q]]
\* the downloader leaves a finished file
Produce(f, path) ==
    [q \in DOMAIN f \cup {path} |-> IF q = path THEN {} ELSE f[q]]
\* ffmpeg -y opens its output: a file that is there is truncated and written
\* to in place, whoever else has it open
OpenForWrite(f, path, w) ==
    [q \in DOMAIN f \cup {path} |->
        IF q = path
        THEN (IF path \in DOMAIN f THEN f[path] ELSE {}) \cup {w}
        ELSE f[q]]
CloseWriter(f, w) == [q \in DOMAIN f |-> f[q] \ {w}]

\* what an exception is recorded as
Raised(name) == <<"raise", name>>

\* a call: its arguments, where it stands, the state of its download and of
\* its metadata query, whether ffmpeg found its input, and its result.  For
\* a prefetch: the queue it was given and the index it has reached.  The
\* rest is a record of what the call did: whether it took the lock, whether
\* it waited for it, the downloads it started, whether it started a
\* metadata query, whether a subprocess or query of it failed, the queue
\* positions it downloaded and the urls whose prefetch failed.
NoCall ==
    [kind |-> "none", url |-> "-", fmt |-> "-", auth |-> FALSE,
     pc |-> "idle", dl |-> "none", md |-> "none", input |-> FALSE,
     result |-> <<>>, queue |-> <<>>, idx |-> 0,
     locked |-> FALSE, waited |-> FALSE, downloads |-> 0, queried |-> FALSE,
     fault |-> FALSE, issued |-> {}, failed |-> <<>>]

\* the record that a metadata query of url gives: the url as it was asked
\* for and the title of the video
VideoMetadata(url) == <<"metadata", url, GetVideoId(url)>>

\* cache_set_metadata(meta): the record is stored under the video id of its
\* url, in place of what was stored there
CacheSetMetadata(cache, meta) ==
    LET video_id == GetVideoId(meta[2])
    IN  [k \in DOMAIN cache \cup {video_id} |->
            IF k = video_id THEN meta ELSE cache[k]]

\* the urls get_youtube_track_metadata is called with; the last one is not
\* a YouTube url
MetaUrls == {"a", "a_short", "b", "not_a_url"}
IsValidYoutubeUrl(url) == url # "not_a_url"

\* the fetch_audio_pcm calls that are tried
FetchInput(url, fmt, auth) == [url |-> url, fmt |-> fmt, auth |-> auth]
FetchInputs ==
    { FetchInput("a", DefaultFormat, FALSE),
      FetchInput("a", "44100Hz_1ch", FALSE),
      FetchInput("a_short", DefaultFormat, FALSE),
      FetchInput("a", DefaultFormat, TRUE),
      FetchInput("b", DefaultFormat, FALSE) }

DownloadOutcomes == {"ok", "missing", "error"}
ExitCodes == {0, 1}

\* the calls that wait for the lock of url
Waiters(url) == {p \in Procs : calls[p].pc = "wait" /\ calls[p].url = url}

\* calls are started in the order of their numbers
Startable(p) ==
    /\ calls[p].pc = "idle"
    /\ \A q \in Procs : q < p => calls[q].pc # "idle"

\* a get_youtube_track_metadata that always asks YouTube
GetMetadataBeginNoCache(p, url) ==
    /\ Startable(p)
    /\ LET c == [NoCall EXCEPT !.kind = "meta", !.url = url]
       IN  calls' = [calls EXCEPT ![p] =
               IF ~IsValidYoutubeUrl(url)
               THEN [c EXCEPT !.pc = "done", !.result = Raised("ValueError")]
               ELSE [c EXCEPT !.pc = "query", !.md = "run",
                              !.queried = TRUE]]
    /\ UNCHANGED <<files, download_locks, metadata_cache, youtube_queue,
                   playVars, regVars, jobVars, normVars>>

\* get_youtube_track_metadata(url) up to its first suspension: an invalid
\* url raises, a cached record is returned, otherwise the query is started
GetMetadataBegin(p, url) ==
    /\ Startable(p)
    /\ LET c == [NoCall EXCEPT !.kind = "meta", !.url = url]
       IN  calls' = [calls EXCEPT ![p] =
               IF ~IsValidYoutubeUrl(url)
               THEN [c EXCEPT !.pc = "done", !.result = Raised("ValueError")]
               ELSE IF GetVideoId(url) \in DOMAIN metadata_cache
               THEN [c EXCEPT !.pc = "done",
                              !.result = metadata_cache[GetVideoId(url)]]
               ELSE [c EXCEPT !.pc = "query", !.md = "run",
                              !.queried = TRUE]]
    /\ UNCHANGED <<files, download_locks, metadata_cache, youtube_queue,
                   playVars, regVars, jobVars, normVars>>

\* the query of get_youtube_track_metadata returns: with a record, which is
\* cached and returned, or with nothing, which raises
GetMetadataEnd(p, ok) ==
    /\ calls[p].kind = "meta"
    /\ calls[p].pc = "query"
    /\ LET c == calls[p]
       IN  IF ok
           THEN /\ metadata_cache' =
                     CacheSetMetadata(metadata_cache, VideoMetadata(c.url))
                /\ calls' = [calls EXCEPT ![p] =
                       [c EXCEPT !.pc = "done", !.md = "done",
                                 !.result = VideoMetadata(c.url)]]
           ELSE /\ UNCHANGED metadata_cache
                /\ calls' = [calls EXCEPT ![p] =
                       [c EXCEPT !.pc = "done", !.md = "failed",
                                 !.fault = TRUE,
                                 !.result = Raised("ValueError")]]
    /\ UNCHANGED <<files, download_locks, youtube_queue, playVars, regVars, jobVars, normVars>>

\* _convert_opus_to_pcm up to "await proc.communicate()": ffmpeg is started;
\* when its input is there it opens its output
SpawnFfmpeg(f, input, output, w) ==
    IF input \in DOMAIN f THEN OpenForWrite(f, output, w) ELSE f

\* a fetch_audio_pcm that never looks at the cache before it takes the lock
\* and downloads
FetchLockedNoRecheck(p, c, table) ==
    LET query == GetVideoId(c.url) \notin DOMAIN metadata_cache
    IN  /\ calls' = [calls EXCEPT ![p] =
               [c EXCEPT !.pc = "gather", !.locked = TRUE, !.dl = "run",
                         !.downloads = 1,
                         !.md = IF query THEN "run" ELSE "done",
                         !.queried = query]]
        /\ download_locks' = [table EXCEPT ![c.url] = p]

\* fetch_audio_pcm inside "async with lock", up to "await asyncio.gather":
\* the second look at the cache, then the two tasks of gather are started.
\* With a username or password _download_opus raises in its first
\* statement, when the metadata task has been started too.
FetchLocked(p, c, table) ==
    LET cache_path == GetCachePath(c.url, c.fmt)
        query == GetVideoId(c.url) \notin DOMAIN metadata_cache
    IN  IF cache_path \in DOMAIN files
        THEN /\ calls' = [calls EXCEPT ![p] =
                    [c EXCEPT !.pc = "done", !.locked = TRUE,
                              !.result = cache_path]]
             /\ download_locks' = [table EXCEPT ![c.url] = 0]
        ELSE IF c.auth
        THEN /\ calls' = [calls EXCEPT ![p] =
                    [c EXCEPT !.pc = "done", !.locked = TRUE,
                              !.result = Raised("NotImplementedError"),
                              !.md = IF query THEN "run" ELSE "done",
                              !.queried = query]]
             /\ download_locks' = [table EXCEPT ![c.url] = 0]
        ELSE /\ calls' = [calls EXCEPT ![p] =
                    [c EXCEPT !.pc = "gather", !.locked = TRUE, !.dl = "run",
                              !.downloads = 1,
                              !.md = IF query THEN "run" ELSE "done",
                              !.queried = query]]
             /\ download_locks' = [table EXCEPT ![c.url] = p]

\* a fetch_audio_pcm without the fast path: it takes the lock whatever the
\* cache holds
FetchBeginAlwaysLocks(p, in) ==
    /\ Startable(p)
    /\ LET c == [NoCall EXCEPT !.kind = "fetch", !.url = in.url,
                               !.fmt = in.fmt, !.auth = in.auth]
           table == IF in.url \in DOMAIN download_locks THEN download_locks
                    ELSE (in.url :> 0) @@ download_locks
       IN  IF table[in.url] = 0 /\ Waiters(in.url) = {}
           THEN FetchLocked(p, c, table)
           ELSE /\ calls' = [calls EXCEPT ![p] =
                       [c EXCEPT !.pc = "wait", !.waited = TRUE]]
                /\ download_locks' = table
    /\ UNCHANGED <<files, metadata_cache, youtube_queue, playVars, regVars, jobVars, normVars>>

\* fetch_audio_pcm(url, sample_rate, channels, username, password) up to its
\* first suspension: the fast path, or the lock of the url is taken (an
\* asyncio.Lock is taken at once when it is free and nobody waits for it)
FetchBegin(p, in) ==
    /\ Startable(p)
    /\ LET c == [NoCall EXCEPT !.kind = "fetch", !.url = in.url,
                               !.fmt = in.fmt, !.auth = in.auth]
           cache_path == GetCachePath(in.url, in.fmt)
           table == IF in.url \in DOMAIN download_locks THEN download_locks
                    ELSE (in.url :> 0) @@ download_locks
       IN  IF cache_path \in DOMAIN files
           THEN /\ calls' = [calls EXCEPT ![p] =
                       [c EXCEPT !.pc = "done", !.result = cache_path]]
                /\ UNCHANGED download_locks
           ELSE IF table[in.url] = 0 /\ Waiters(in.url) = {}
           THEN FetchLocked(p, c, table)
           ELSE /\ calls' = [calls EXCEPT ![p] =
                       [c EXCEPT !.pc = "wait", !.waited = TRUE]]
                /\ download_locks' = table
    /\ UNCHANGED <<files, metadata_cache, youtube_queue, playVars, regVars, jobVars, normVars>>

\* a call that waited for the lock gets it
FetchWake(p) ==
    /\ calls[p].pc = "wait"
    /\ download_locks[calls[p].url] = 0
    /\ FetchLocked(p, calls[p], download_locks)
    /\ UNCHANGED <<files, metadata_cache, youtube_queue, playVars, regVars, jobVars, normVars>>

\* the downloader of _download_opus returns.  outcome: it left its file, it
\* left none, or it raised DownloadError.  When gather has both results,
\* _convert_opus_to_pcm starts ffmpeg.  The task goes on when the fetch has
\* already raised: gather does not cancel it.
DownloadEnd(p, outcome) ==
    /\ calls[p].kind = "fetch"
    /\ calls[p].dl = "run"
    /\ LET c == calls[p]
           tmp == GetTempPaths(c.url)
           final == FinalOpus(c.url)
           f1 == IF outcome = "ok" THEN Produce(files, final) ELSE files
           produced == outcome # "error" /\ final \in DOMAIN f1
           f2 == IF produced THEN Replace(f1, final, tmp.opus) ELSE f1
           c1 == [c EXCEPT !.dl = IF produced THEN "done" ELSE "failed",
                           !.fault = c.fault \/ outcome # "ok"]
       IN  IF c.pc # "gather"
           THEN /\ files' = f2
                /\ calls' = [calls EXCEPT ![p] = c1]
                /\ UNCHANGED download_locks
           ELSE IF ~produced
           THEN /\ files' = f2
                /\ calls' = [calls EXCEPT ![p] =
                       [c1 EXCEPT !.pc = "done",
                                  !.result = Raised("RuntimeError")]]
                /\ download_locks' = [download_locks EXCEPT ![c.url] = 0]
           ELSE IF c.md = "done"
           THEN /\ files' = SpawnFfmpeg(f2, tmp.opus, tmp.pcm, p)
                /\ calls' = [calls EXCEPT ![p] =
                       [c1 EXCEPT !.pc = "ffmpeg",
                                  !.input = tmp.opus \in DOMAIN f2]]
                /\ UNCHANGED download_locks
           ELSE /\ files' = f2
                /\ calls' = [calls EXCEPT ![p] = c1]
                /\ UNCHANGED download_locks
    /\ UNCHANGED <<metadata_cache, youtube_queue, playVars, regVars, jobVars, normVars>>

\* get_youtube_track_metadata returns (ok: the metadata is cached) or raises
MetadataEnd(p, ok) ==
    /\ calls[p].kind = "fetch"
    /\ calls[p].md = "run"
    /\ LET c == calls[p]
           tmp == GetTempPaths(c.url)
           c1 == [c EXCEPT !.md = IF ok THEN "done" ELSE "failed",
                           !.fault = c.fault \/ ~ok]
       IN  /\ metadata_cache' =
                IF ok THEN CacheSetMetadata(metadata_cache, VideoMetadata(c.url))
                ELSE metadata_cache
           /\ IF c.pc # "gather"
              THEN /\ calls' = [calls EXCEPT ![p] = c1]
                   /\ UNCHANGED <<files, download_locks>>
              ELSE IF ~ok
              THEN /\ calls' = [calls EXCEPT ![p] =
                          [c1 EXCEPT !.pc = "done",
                                     !.result = Raised("ValueError")]]
                   /\ download_locks' = [download_locks EXCEPT ![c.url] = 0]
                   /\ UNCHANGED files
              ELSE IF c.dl = "done"
              THEN /\ files' = SpawnFfmpeg(files, tmp.opus, tmp.pcm, p)
                   /\ calls' = [calls EXCEPT ![p] =
                          [c1 EXCEPT !.pc = "ffmpeg",
                                     !.input = tmp.opus \in DOMAIN files]]
                   /\ UNCHANGED download_locks
              ELSE /\ calls' = [calls EXCEPT ![p] = c1]
                   /\ UNCHANGED <<files, download_locks>>
    /\ UNCHANGED <<youtube_queue, playVars, regVars, jobVars, normVars>>

\* a conversion that moves whatever ffmpeg left to the cache path and
\* returns it, whatever the exit status
ConvertEndMovesAlways(f, w, opus, pcm, cache_path, rc) ==
    LET f1 == Unlink(CloseWriter(f, w), opus)
    IN  IF pcm \in DOMAIN f1
        THEN [files |-> Replace(f1, pcm, cache_path), result |-> cache_path]
        ELSE [files |-> f1, result |-> Raised("FileNotFoundError")]

\* _convert_opus_to_pcm and download_and_convert from the return of ffmpeg
\* on: the opus file is unlinked; a non-zero exit unlinks the pcm file and
\* raises, a zero exit moves the pcm file to the cache path
ConvertEnd(f, w, opus, pcm, cache_path, rc) ==
    LET f1 == Unlink(CloseWriter(f, w), opus)
    IN  IF rc # 0
        THEN [files |-> Unlink(f1, pcm), result |-> Raised("RuntimeError")]
        ELSE IF pcm \in DOMAIN f1
        THEN [files |-> Replace(f1, pcm, cache_path), result |-> cache_path]
        ELSE [files |-> f1, result |-> Raised("FileNotFoundError")]

\* ffmpeg returns to _convert_opus_to_pcm; fetch_audio_pcm returns or raises
TranscodeEnd(p, rc) ==
    /\ calls[p].kind = "fetch"
    /\ calls[p].pc = "ffmpeg"
    /\ rc = 0 => calls[p].input
    /\ LET c == calls[p]
           tmp == GetTempPaths(c.url)
           end == ConvertEnd(files, p, tmp.opus, tmp.pcm,
                             GetCachePath(c.url, c.fmt), rc)
       IN  /\ files' = end.files
           /\ calls' = [calls EXCEPT ![p] =
                  [c EXCEPT !.pc = "done", !.result = end.result,
                            !.fault = c.fault \/ rc # 0]]
           /\ download_locks' = [download_locks EXCEPT ![c.url] = 0]
    /\ UNCHANGED <<metadata_cache, youtube_queue, playVars, regVars, jobVars, normVars>>

\* a look-ahead without the limit of foresight
LookaheadUnbounded(queue) == Len(queue) - 1

\* the urls of queue[1 : foresight + 1], counted
Lookahead(queue) == Min2(QUEUE_FORESIGHT, Len(queue) - 1)

\* _maybe_preload_next_tracks(vc, queue) is called: the slice of the queue
\* is taken
PreloadBegin(p) ==
    /\ Startable(p)
    /\ gid \in DOMAIN youtube_queue
    /\ calls' = [calls EXCEPT ![p] =
           [NoCall EXCEPT !.kind = "preload", !.pc = "loop",
                          !.fmt = DefaultFormat,
                          !.queue = youtube_queue[gid], !.idx = 1]]
    /\ UNCHANGED <<files, download_locks, metadata_cache, youtube_queue,
                   playVars, regVars, jobVars, normVars>>

\* one turn of the loop of _maybe_preload_next_tracks, up to the await: a
\* url that is cached is passed over, for another download_and_convert is
\* handed to the executor
PreloadNext(p) ==
    /\ calls[p].kind = "preload"
    /\ calls[p].pc = "loop"
    /\ LET c == calls[p]
       IN  IF c.idx > Lookahead(c.queue)
           THEN calls' = [calls EXCEPT ![p] =
                    [c EXCEPT !.pc = "done", !.result = <<"None">>]]
           ELSE LET url == c.queue[c.idx + 1]
                IN  IF GetCachePath(url, c.fmt) \in DOMAIN files
                    THEN calls' = [calls EXCEPT ![p] =
                             [c EXCEPT !.idx = c.idx + 1]]
                    ELSE calls' = [calls EXCEPT ![p] =
                             [c EXCEPT !.pc = "download", !.url = url,
                                       !.issued = c.issued \cup {c.idx},
                                       !.downloads = c.downloads + 1]]
    /\ UNCHANGED <<files, download_locks, metadata_cache, youtube_queue,
                   playVars, regVars, jobVars, normVars>>

\* the except branch of _maybe_preload_next_tracks: the failure is logged
\* and the loop goes on
PrefetchFailed(p, c) ==
    /\ calls' = [calls EXCEPT ![p] =
           [c EXCEPT !.pc = "loop", !.idx = c.idx + 1, !.fault = TRUE,
                     !.failed = Append(c.failed, c.url)]]
    /\ UNCHANGED youtube_queue

\* the downloader of download_and_convert returns; when its file is there
\* ffmpeg is run on it
WorkerDownloadEnd(p, outcome) ==
    /\ calls[p].kind = "preload"
    /\ calls[p].pc = "download"
    /\ LET c == calls[p]
           final == FinalOpus(c.url)
           f1 == IF outcome = "ok" THEN Produce(files, final) ELSE files
       IN  IF outcome = "error" \/ final \notin DOMAIN f1
           THEN /\ files' = f1
                /\ PrefetchFailed(p, c)
           ELSE /\ files' = SpawnFfmpeg(f1, final, GetTempPaths(c.url).pcm, p)
                /\ calls' = [calls EXCEPT ![p] =
                       [c EXCEPT !.pc = "ffmpeg", !.input = TRUE]]
                /\ UNCHANGED youtube_queue
    /\ UNCHANGED <<download_locks, metadata_cache, playVars, regVars, jobVars, normVars>>

\* ffmpeg returns to download_and_convert, which returns or raises to the
\* loop of _maybe_preload_next_tracks
WorkerTranscodeEnd(p, rc) ==
    /\ calls[p].kind = "preload"
    /\ calls[p].pc = "ffmpeg"
    /\ LET c == calls[p]
           end == ConvertEnd(files, p, FinalOpus(c.url),
                             GetTempPaths(c.url).pcm,
                             GetCachePath(c.url, c.fmt), rc)
       IN  /\ files' = end.files
           /\ IF end.result = GetCachePath(c.url, c.fmt)
              THEN /\ calls' = [calls EXCEPT ![p] =
                          [c EXCEPT !.pc = "loop", !.idx = c.idx + 1]]
                   /\ UNCHANGED youtube_queue
              ELSE PrefetchFailed(p, c)
    /\ UNCHANGED <<download_locks, metadata_cache, playVars, regVars, jobVars, normVars>>

-----------------------------------------------------------------------------
(* The mixer registry and the voice connections *)

MaxGuilds == 2
MaxConns == 2
MaxJobs == 1
MaxRemovers == 2

Guilds == 1..MaxGuilds

\* a voice client: its guild, is_connected(), and the audio source that
\* vc.play attached to it (0: none)
VoiceClient(g) == [guild |-> g, connected |-> TRUE, source |-> 0]

\* guild.voice_client: the voice client of the guild that is connected
\* (0: none; discord drops a voice client from its guild on disconnect)
VoiceClientOf(g) ==
    IF \E c \in 1..Len(conns) : conns[c].guild = g /\ conns[c].connected
    THEN CHOOSE c \in 1..Len(conns) : conns[c].guild = g /\ conns[c].connected
    ELSE 0

\* what ensure_connected and ensure_mixer are recorded as: the voice client
\* returned or given, the mixer returned (0: none), whether a mixer was
\* made, whether vc.play was called, whether the call raised
Ensured(op) ==
    [op |-> op, vc |-> 0, mixer |-> 0, created |-> FALSE, played |-> FALSE,
     raised |-> FALSE]

InitRegistry ==
    /\ mixers = <<>>
    /\ conns = <<>>
    /\ ensured = Ensured("init")

\* vc.disconnect(): the player of the voice client is stopped and the
\* client leaves its guild
Disconnected(cs, c) ==
    [cs EXCEPT ![c] = [@ EXCEPT !.connected = FALSE, !.source = 0]]

\* ensure_connected(guild, channel); same_channel: the voice client of the
\* guild, if any, is in that channel
EnsureConnected(g, same_channel) ==
    /\ LET vc == VoiceClientOf(g)
       IN  IF vc # 0 /\ same_channel
           THEN /\ ensured' = [Ensured("ensure_connected") EXCEPT !.vc = vc]
                /\ UNCHANGED conns
           ELSE /\ Len(conns) < MaxConns
                /\ conns' = Append(IF vc = 0 THEN conns
                                   ELSE Disconnected(conns, vc),
                                   VoiceClient(g))
                /\ ensured' = [Ensured("ensure_connected") EXCEPT
                                 !.vc = Len(conns) + 1]
    /\ UNCHANGED <<mixers, jobVars, normVars, acqVars, youtube_queue, playVars>>

\* vc.disconnect(force=True) of the stop command and of
\* on_voice_state_update
Disconnect(g) ==
    /\ VoiceClientOf(g) # 0
    /\ conns' = Disconnected(conns, VoiceClientOf(g))
    /\ ensured' = [Ensured("disconnect") EXCEPT !.vc = VoiceClientOf(g)]
    /\ UNCHANGED <<mixers, jobVars, normVars, acqVars, youtube_queue, playVars>>

\* the ids of the mixers made so far are 1, 2, ...: the next one
NextMixerId(table) ==
    1 + Cardinality({table[g].id : g \in DOMAIN table})

\* ensure_mixer(vc) on the registry: the new registry, the new voice
\* clients and the record of the call.  vc.play raises ClientException on a
\* voice client that is not connected, before the mixer is registered.
EnsureMixerOn(table, cs, vc) ==
    LET g == cs[vc].guild
    IN  IF g \in DOMAIN table
        THEN [mixers |-> table, conns |-> cs,
              ensured |-> [Ensured("ensure_mixer") EXCEPT
                             !.vc = vc, !.mixer = table[g].id]]
        ELSE IF ~cs[vc].connected
        THEN [mixers |-> table, conns |-> cs,
              ensured |-> [Ensured("ensure_mixer") EXCEPT
                             !.vc = vc, !.created = TRUE, !.raised = TRUE]]
        ELSE LET mixer == [id |-> NextMixerId(table), vc |-> vc]
             IN  [mixers |-> (g :> mixer) @@ table,
                  conns |-> [cs EXCEPT ![vc] = [@ EXCEPT !.source = mixer.id]],
                  ensured |-> [Ensured("ensure_mixer") EXCEPT
                                 !.vc = vc, !.mixer = mixer.id,
                                 !.created = TRUE, !.played = TRUE]]

\* an ensure_mixer that makes a mixer for every voice client it is given
EnsureMixerPerClient(vc) ==
    /\ vc \in 1..Len(conns)
    /\ LET r == EnsureMixerOn(<<>>, conns, vc)
           g == conns[vc].guild
       IN  /\ mixers' = IF r.ensured.raised THEN mixers
                        ELSE (g :> [id |-> NextMixerId(mixers), vc |-> vc])
                             @@ mixers
           /\ conns' = r.conns
           /\ ensured' = IF r.ensured.raised THEN r.ensured
                         ELSE [r.ensured EXCEPT !.mixer = NextMixerId(mixers)]
    /\ UNCHANGED <<jobVars, normVars, acqVars, youtube_queue, playVars>>

\* ensure_mixer(vc), for any voice client a caller may still hold
EnsureMixer(vc) ==
    /\ vc \in 1..Len(conns)
    /\ LET r == EnsureMixerOn(mixers, conns, vc)
       IN  /\ mixers' = r.mixers
           /\ conns' = r.conns
           /\ ensured' = r.ensured
    /\ UNCHANGED <<jobVars, normVars, acqVars, youtube_queue, playVars>>

-----------------------------------------------------------------------------
(* Sound-effect jobs                                                       *)
(*                                                                         *)
(* A job is an entry of loop_jobs and a task that runs _play_sfx_loop.     *)
(* The task runs from one await to the next in one step of the event loop. *)
(* task.cancel() does not stop the task: it marks it, and the task's next  *)
(* step raises CancelledError at the await where it is suspended.  A task  *)
(* that calls remove_job on itself cancels and awaits itself: the event    *)
(* loop answers at the task's next step, with the CancelledError that      *)
(* remove_job suppresses.                                                  *)

InitJobs ==
    /\ loop_jobs = <<>>
    /\ job_tasks = <<>>
    /\ removers = <<>>

\* the sound files of the jobs, as the samples they decode to
JobSounds == {<<20000, -20000, 20000>>}

\* _after_play of an iteration: done_event.set()
DoneEventCallback == Callback("done_event", "-", FALSE)

\* the task of a job: where _play_sfx_loop is suspended ("new": created and
\* not yet run; "self_remove": in its own remove_job, awaiting itself),
\* whether a cancel() is pending on it, the track whose completion it waits
\* for and whether done_event is set, and how many tracks it has enqueued
JobTask(vc, sound) ==
    [vc |-> vc, sound |-> sound, pc |-> "new", cancelling |-> FALSE,
     track |-> 0, done_event |-> FALSE, enqueued |-> 0]

Running == {"new", "sleep", "wait", "self_remove"}
Terminated == {"returned", "cancelled"}

\* a call of remove_job or stop_all_jobs: the job it is removing, the jobs
\* stop_all_jobs has still to remove, where it is ("await": at "await
\* task"; "returned"; "KeyError"), and the jobs whose remove_job returned
Remover(job, rest, pc, removed) ==
    [job |-> job, rest |-> rest, pc |-> pc, removed |-> removed]

\* what "mixer = await get_mixer_from_voice_client(vc)" meets.  The function
\* of discord_utils is a plain def that returns the mixer, and awaiting a
\* mixer is a TypeError; "coroutine" is the function as a coroutine
\* function, which is what the callers in the package all take it to be.
Awaitables == {"TypeError", "coroutine"}

\* add_job(vc, sound, min_interval, max_interval): the ids are fresh
AddJob(vc, sound) ==
    /\ vc \in 1..Len(conns)
    /\ Cardinality(DOMAIN job_tasks) < MaxJobs
    /\ LET job_id == Cardinality(DOMAIN job_tasks) + 1
       IN  /\ job_tasks' = (job_id :> JobTask(vc, sound)) @@ job_tasks
           /\ loop_jobs' = (job_id :> [vc |-> vc, sound |-> sound]) @@ loop_jobs
    /\ fired' = <<>>
    /\ out' = <<>>
    /\ UNCHANGED <<removers, mixerVars, readPc, tasks, afterCount, adds,
                   lastOp, youtube_queue>>
    /\ UNCHANGED <<acqVars, regVars, normVars>>

\* task.cancel() on the task of a job
Cancel(jt, job_id) ==
    IF jt[job_id].pc \in Terminated THEN jt
    ELSE [jt EXCEPT ![job_id] = [@ EXCEPT !.cancelling = TRUE]]

\* "await remove_job(job_id)" called by the task of the job itself: the
\* entry is there, the task cancels itself and awaits itself
SelfRemove(jt, job_id) ==
    [Cancel(jt, job_id) EXCEPT ![job_id] = [@ EXCEPT !.pc = "self_remove"]]

\* the top of the loop of _play_sfx_loop, up to its first await
Iterate(jt, job_id) ==
    IF job_id \notin DOMAIN loop_jobs
    THEN [jt EXCEPT ![job_id] = [@ EXCEPT !.pc = "returned"]]
    ELSE IF ~conns[jt[job_id].vc].connected
    THEN SelfRemove(jt, job_id)
    ELSE [jt EXCEPT ![job_id] = [@ EXCEPT !.pc = "sleep"]]

\* a step of the task that changes nothing but the task and the job table
JobFrame ==
    /\ fired' = <<>>
    /\ out' = <<>>
    /\ UNCHANGED <<removers, mixerVars, readPc, tasks, afterCount, adds,
                   lastOp, youtube_queue>>
    /\ UNCHANGED <<acqVars, regVars, normVars>>

\* the task is cancelled: CancelledError is raised at its await (or before
\* its first step), the except clause logs and re-raises
JobCancelled(job_id) ==
    /\ job_tasks[job_id].pc \in {"new", "sleep", "wait"}
    /\ job_tasks[job_id].cancelling
    /\ job_tasks' = [job_tasks EXCEPT ![job_id] =
                        [@ EXCEPT !.pc = "cancelled", !.cancelling = FALSE]]
    /\ UNCHANGED loop_jobs
    /\ JobFrame

\* the first step of the task
JobStart(job_id) ==
    /\ job_tasks[job_id].pc = "new"
    /\ ~job_tasks[job_id].cancelling
    /\ job_tasks' = Iterate(job_tasks, job_id)
    /\ UNCHANGED loop_jobs
    /\ JobFrame

\* a self-removal that returns from the loop and leaves the entry
JobSelfRemovedKeepsEntry(job_id) ==
    /\ job_tasks[job_id].pc = "self_remove"
    /\ job_tasks' = [job_tasks EXCEPT ![job_id] =
                        [@ EXCEPT !.pc = "returned", !.cancelling = FALSE]]
    /\ UNCHANGED loop_jobs
    /\ JobFrame

\* the task awaited itself in remove_job: its next step raises the pending
\* CancelledError at "await task", contextlib.suppress swallows it, the
\* entry is deleted, remove_job returns and so does the loop
JobSelfRemoved(job_id) ==
    /\ job_tasks[job_id].pc = "self_remove"
    /\ job_tasks' = [job_tasks EXCEPT ![job_id] =
                        [@ EXCEPT !.pc = "returned", !.cancelling = FALSE]]
    /\ loop_jobs' = [j \in DOMAIN loop_jobs \ {job_id} |-> loop_jobs[j]]
    /\ JobFrame

\* the sleep is over: get the mixer, play the file, wait for done_event.
\* get_mixer_from_voice_client runs ensure_mixer before its result is
\* awaited; decoded: play_file found and decoded the sound file.  Every
\* exception of the two lines is caught and makes the job remove itself.
JobPlay(job_id, awaitable, decoded) ==
    /\ job_tasks[job_id].pc = "sleep"
    /\ ~job_tasks[job_id].cancelling
    /\ LET job == job_tasks[job_id]
           r == EnsureMixerOn(mixers, conns, job.vc)
           played == ~r.ensured.raised /\ awaitable = "coroutine" /\ decoded
       IN  /\ mixers' = r.mixers
           /\ conns' = r.conns
           /\ ensured' = r.ensured
           /\ IF played
              THEN /\ nextId <= MaxEnq
                   /\ sfx' = Enqueue(sfx, job.sound, NoCallback,
                                     DoneEventCallback)
                   /\ stopped' = FALSE
                   /\ nextId' = nextId + 1
                   /\ lastOp' = [Op("play_file") EXCEPT !.wasStopped = stopped]
                   /\ job_tasks' = [job_tasks EXCEPT ![job_id] =
                                       [@ EXCEPT !.pc = "wait",
                                                 !.track = nextId,
                                                 !.done_event = FALSE,
                                                 !.enqueued = @ + 1]]
              ELSE /\ lastOp' = [Op("play_file") EXCEPT !.raised = TRUE]
                   /\ job_tasks' = SelfRemove(job_tasks, job_id)
                   /\ UNCHANGED <<sfx, stopped, nextId>>
    /\ fired' = <<>>
    /\ out' = <<>>
    /\ UNCHANGED <<loop_jobs, removers, tracks, readPc, tasks, afterCount,
                   adds, youtube_queue>>
    /\ UNCHANGED <<acqVars, normVars>>

\* done_event is set: the wait returns and the loop goes round
JobWake(job_id) ==
    /\ job_tasks[job_id].pc = "wait"
    /\ ~job_tasks[job_id].cancelling
    /\ job_tasks[job_id].done_event
    /\ job_tasks' = Iterate(job_tasks, job_id)
    /\ UNCHANGED loop_jobs
    /\ JobFrame

\* the steps of the task of a job
JobStep(job_id) ==
    /\ job_id \in DOMAIN job_tasks
    /\ \/ JobCancelled(job_id)
       \/ JobStart(job_id)
       \/ JobSelfRemoved(job_id)
       \/ \E awaitable \in Awaitables, decoded \in BOOLEAN :
             JobPlay(job_id, awaitable, decoded)
       \/ JobWake(job_id)

\* the task that handle_callback made for an _after_play runs: done_event
\* is set, for the iteration that waits for this track
RunAfterPlay(t) ==
    /\ BagIn(t, tasks)
    /\ t.type = "job"
    /\ t.cb.kind = "done_event"
    /\ tasks' = tasks (-) SetToBag({t})
    /\ job_tasks' = [j \in DOMAIN job_tasks |->
                        IF job_tasks[j].track = t.id
                        THEN [job_tasks[j] EXCEPT !.done_event = TRUE]
                        ELSE job_tasks[j]]
    /\ lastOp' = Op("after_play")
    /\ fired' = <<>>
    /\ out' = <<>>
    /\ UNCHANGED <<loop_jobs, removers, mixerVars, readPc, afterCount, adds,
                   youtube_queue>>
    /\ UNCHANGED <<acqVars, regVars, normVars>>

\* remove_job(job_id) up to its await, in a call that has the jobs of rest
\* still to remove and has removed the jobs of removed
RemoveJobFrom(job_id, rest, removed) ==
    IF job_id \notin DOMAIN loop_jobs
    THEN [jt |-> job_tasks,
          remover |-> Remover(job_id, rest, "KeyError", removed)]
    ELSE [jt |-> Cancel(job_tasks, job_id),
          remover |-> Remover(job_id, rest, "await", removed)]

\* the frame of the steps of remove_job and stop_all_jobs
RemoverFrame ==
    /\ fired' = <<>>
    /\ out' = <<>>
    /\ UNCHANGED <<mixerVars, readPc, tasks, afterCount, adds, lastOp,
                   youtube_queue>>
    /\ UNCHANGED <<acqVars, regVars, normVars>>

\* a remove_job that deletes the entry without waiting for the task
RemoveJobNoAwait(job_id) ==
    /\ Len(removers) < MaxRemovers
    /\ LET r == RemoveJobFrom(job_id, <<>>, {})
       IN  /\ job_tasks' = r.jt
           /\ removers' =
                 Append(removers,
                        IF r.remover.pc = "KeyError" THEN r.remover
                        ELSE Remover(job_id, <<>>, "returned", {job_id}))
           /\ loop_jobs' = [j \in DOMAIN loop_jobs \ {job_id} |-> loop_jobs[j]]
    /\ RemoverFrame

\* remove_job(job_id), called from a command: up to "await task"
RemoveJob(job_id) ==
    /\ Len(removers) < MaxRemovers
    /\ LET r == RemoveJobFrom(job_id, <<>>, {})
       IN  /\ job_tasks' = r.jt
           /\ removers' = Append(removers, r.remover)
    /\ UNCHANGED loop_jobs
    /\ RemoverFrame

\* sorted(jobs): the job ids of a set in a list
RECURSIVE IdList(_)
IdList(ids) ==
    IF ids = {} THEN <<>>
    ELSE LET first == CHOOSE j \in ids : \A k \in ids : j <= k
         IN  <<first>> \o IdList(ids \ {first})

\* stop_all_jobs(vc): up to the await of its first remove_job
StopAllJobs(vc) ==
    /\ Len(removers) < MaxRemovers
    /\ vc \in 1..Len(conns)
    /\ LET jobs_to_remove ==
             IdList({j \in DOMAIN loop_jobs : loop_jobs[j].vc = vc})
       IN  IF jobs_to_remove = <<>>
           THEN /\ removers' = Append(removers, Remover(0, <<>>, "returned", {}))
                /\ UNCHANGED job_tasks
           ELSE LET r == RemoveJobFrom(Head(jobs_to_remove),
                                       Tail(jobs_to_remove), {})
                IN  /\ job_tasks' = r.jt
                    /\ removers' = Append(removers, r.remover)
    /\ UNCHANGED loop_jobs
    /\ RemoverFrame

\* the task that remove_job awaits has ended: the CancelledError of a
\* cancelled task is suppressed, the entry is deleted (KeyError when it is
\* gone already), and stop_all_jobs goes on to its next job
RemoveJobResume(r) ==
    /\ r \in 1..Len(removers)
    /\ removers[r].pc = "await"
    /\ job_tasks[removers[r].job].pc \in Terminated
    /\ LET me == removers[r]
       IN  IF me.job \notin DOMAIN loop_jobs
           THEN /\ removers' = [removers EXCEPT ![r] = [@ EXCEPT !.pc = "KeyError"]]
                /\ UNCHANGED <<loop_jobs, job_tasks>>
           ELSE LET table == [j \in DOMAIN loop_jobs \ {me.job} |-> loop_jobs[j]]
                    removed == me.removed \cup {me.job}
                IN  /\ loop_jobs' = table
                    /\ IF me.rest = <<>>
                       THEN /\ removers' =
                                 [removers EXCEPT ![r] =
                                    Remover(me.job, <<>>, "returned", removed)]
                            /\ UNCHANGED job_tasks
                       ELSE IF Head(me.rest) \notin DOMAIN table
                       THEN /\ removers' =
                                 [removers EXCEPT ![r] =
                                    Remover(Head(me.rest), Tail(me.rest),
                                            "KeyError", removed)]
                            /\ UNCHANGED job_tasks
                       ELSE /\ removers' =
                                 [removers EXCEPT ![r] =
                                    Remover(Head(me.rest), Tail(me.rest),
                                            "await", removed)]
                            /\ job_tasks' = Cancel(job_tasks, Head(me.rest))
    /\ RemoverFrame

-----------------------------------------------------------------------------
(* The system *)

Init ==
    /\ tracks = <<>>
    /\ sfx = <<>>
    /\ stopped = TRUE
    /\ nextId = 1
    /\ readPc = "idle"
    /\ youtube_queue = <<>>
    /\ tasks = EmptyBag
    /\ out = <<>>
    /\ fired = <<>>
    /\ afterCount = [t \in 1..Max2(MaxEnq, 2 * MaxAdds) |-> 0]
    /\ adds = 0
    /\ lastOp = Op("init")
    /\ files = <<>>
    /\ download_locks = <<>>
    /\ metadata_cache = <<>>
    /\ calls = [p \in Procs |-> NoCall]
    /\ InitRegistry
    /\ InitJobs
    /\ normalise_audio = FALSE
    /\ track_norm_factors = <<>>

\* a mixer made with normalise_audio as the caller of MultiAudioSource gives
\* it (ensure_mixer leaves it at the default, False)
InitNorm ==
    /\ tracks = <<>>
    /\ sfx = <<>>
    /\ stopped = TRUE
    /\ nextId = 1
    /\ readPc = "idle"
    /\ youtube_queue = <<>>
    /\ tasks = EmptyBag
    /\ out = <<>>
    /\ fired = <<>>
    /\ afterCount = [t \in 1..Max2(MaxEnq, 2 * MaxAdds) |-> 0]
    /\ adds = 0
    /\ lastOp = Op("init")
    /\ files = <<>>
    /\ download_locks = <<>>
    /\ metadata_cache = <<>>
    /\ calls = [p \in Procs |-> NoCall]
    /\ InitRegistry
    /\ InitJobs
    /\ normalise_audio \in BOOLEAN
    /\ track_norm_factors = <<>>

NextMixer ==
    \/ ReadBegin
    \/ ReadMix
    \/ Resume
    \/ Pause
    \/ ClearSfx
    \/ ClearTracks
    \/ \E s \in Sounds, found \in BOOLEAN :
          PlayPcm(s.samples, s.before_play, s.after_play, found)
    \/ \E s \in Sounds, decoded \in BOOLEAN :
          PlayFile(s.samples, s.before_play, s.after_play, decoded)
    \/ \E t \in BagToSet(tasks) : RunJob(t)
    \/ Skip

\* the mixer as its caller enqueues tracks, has their factors computed, and
\* clears lists
NextNorm ==
    \/ \E s \in NormSounds, found \in BOOLEAN :
          PlayPcm(s.samples, s.before_play, s.after_play, found)
    \/ \E s \in NormSounds, decoded \in BOOLEAN :
          PlayFile(s.samples, s.before_play, s.after_play, decoded)
    \/ \E k \in 1..MaxEnq, approach \in Approaches :
          ComputeNormalisationFactor(k, approach)
    \/ ClearSfx
    \/ ClearTracks

\* the sound-effect jobs of one guild, its voice clients and its mixer
NextSfx ==
    \/ \E same_channel \in BOOLEAN : EnsureConnected(1, same_channel)
    \/ Disconnect(1)
    \/ \E vc \in 1..MaxConns, sound \in JobSounds : AddJob(vc, sound)
    \/ \E job_id \in 1..MaxJobs : JobStep(job_id)
    \/ \E t \in BagToSet(tasks) : RunAfterPlay(t)
    \/ \E job_id \in 1..MaxJobs : RemoveJob(job_id)
    \/ \E vc \in 1..MaxConns : StopAllJobs(vc)
    \/ \E r \in 1..MaxRemovers : RemoveJobResume(r)
    \/ Read
    \/ ClearSfx

NextQueue ==
    \/ Read
    \/ \E a \in AddInputs : AddToQueue(a.url, a.tc)
    \/ \E t \in BagToSet(tasks) : PlayNextStart(t)
    \/ \E t \in BagToSet(tasks), played \in BOOLEAN : PlayNextFinish(t, played)
    \/ \E t \in BagToSet(tasks) : RunJob(t)
    \/ Skip
    \/ ClearQueue
    \/ \E fault \in StopFaults : Stop(fault)

\* the queues that the guild has when the download pipeline is exercised
FetchQueues == {<<"b", "a">>, <<"a", "b", "a_short">>}

\* the pipeline starts with nothing cached and a queue of the guild
InitFetch ==
    /\ tracks = <<>>
    /\ sfx = <<>>
    /\ stopped = TRUE
    /\ nextId = 1
    /\ readPc = "idle"
    /\ youtube_queue \in {(gid :> q) : q \in FetchQueues}
    /\ tasks = EmptyBag
    /\ out = <<>>
    /\ fired = <<>>
    /\ afterCount = [t \in 1..Max2(MaxEnq, 2 * MaxAdds) |-> 0]
    /\ adds = 0
    /\ lastOp = Op("init")
    /\ files = <<>>
    /\ download_locks = <<>>
    /\ metadata_cache = <<>>
    /\ calls = [p \in Procs |-> NoCall]
    /\ InitRegistry
    /\ InitJobs
    /\ normalise_audio = FALSE
    /\ track_norm_factors = <<>>

NextFetch ==
    \/ \E p \in Procs, in \in FetchInputs : FetchBegin(p, in)
    \/ \E p \in Procs : FetchWake(p)
    \/ \E p \in Procs, outcome \in DownloadOutcomes : DownloadEnd(p, outcome)
    \/ \E p \in Procs, ok \in BOOLEAN : MetadataEnd(p, ok)
    \/ \E p \in Procs, url \in MetaUrls : GetMetadataBegin(p, url)
    \/ \E p \in Procs, ok \in BOOLEAN : GetMetadataEnd(p, ok)
    \/ \E p \in Procs, rc \in ExitCodes : TranscodeEnd(p, rc)
    \/ \E p \in Procs : PreloadBegin(p)
    \/ \E p \in Procs : PreloadNext(p)
    \/ \E p \in Procs, outcome \in DownloadOutcomes :
          WorkerDownloadEnd(p, outcome)
    \/ \E p \in Procs, rc \in ExitCodes : WorkerTranscodeEnd(p, rc)

\* a guild on which only add is called, and every fetch succeeds
NextFifo ==
    \/ Read
    \/ \E a \in AddInputs : AddToQueue(a.url, a.tc)
    \/ \E t \in BagToSet(tasks) : PlayNextStart(t)
    \/ \E t \in BagToSet(tasks) : PlayNextFinish(t, TRUE)
    \/ \E t \in BagToSet(tasks) : RunJob(t)

\* the queues and the caches that a prefetch is started on: every queue of
\* up to MaxQueueLen urls, every set of finished cache files
PreloadUrls == {"a", "b"}
PreloadQueues == UNION {[1..n -> PreloadUrls] : n \in 1..MaxQueueLen}
PreloadCaches ==
    {[path \in S |-> {}] :
        S \in SUBSET {GetCachePath(u, DefaultFormat) : u \in PreloadUrls}}

InitPreload ==
    /\ tracks = <<>>
    /\ sfx = <<>>
    /\ stopped = FALSE
    /\ nextId = 1
    /\ readPc = "idle"
    /\ youtube_queue \in {(gid :> q) : q \in PreloadQueues}
    /\ tasks = EmptyBag
    /\ out = <<>>
    /\ fired = <<>>
    /\ afterCount = [t \in 1..Max2(MaxEnq, 2 * MaxAdds) |-> 0]
    /\ adds = 0
    /\ lastOp = Op("init")
    /\ files \in PreloadCaches
    /\ download_locks = <<>>
    /\ metadata_cache = <<>>
    /\ calls = [p \in Procs |-> NoCall]
    /\ InitRegistry
    /\ InitJobs
    /\ normalise_audio = FALSE
    /\ track_norm_factors = <<>>

NextPreload ==
    \/ PreloadBegin(1)
    \/ PreloadNext(1)
    \/ \E outcome \in DownloadOutcomes : WorkerDownloadEnd(1, outcome)
    \/ \E rc \in ExitCodes : WorkerTranscodeEnd(1, rc)

NextRegistry ==
    \/ \E g \in Guilds, same_channel \in BOOLEAN :
          EnsureConnected(g, same_channel)
    \/ \E g \in Guilds : Disconnect(g)
    \/ \E vc \in 1..MaxConns : EnsureMixer(vc)

\* the mixer, driven through its own methods
SpecMixer == Init /\ [][NextMixer]_vars

\* the queue of the guild, driving the mixer
SpecQueue == Init /\ [][NextQueue]_vars

\* fetch_audio_pcm calls and prefetches, side by side
SpecFetch == InitFetch /\ [][NextFetch]_vars

\* one prefetch, on any queue and any cache
SpecPreload == InitPreload /\ [][NextPreload]_vars

\* voice connections coming and going, and ensure_mixer
SpecRegistry == Init /\ [][NextRegistry]_vars

\* the normalisation of the mixer
SpecNorm == InitNorm /\ [][NextNorm]_vars

\* the queue of a guild that is only added to
SpecFifo == Init /\ [][NextFifo]_vars

\* the sound-effect jobs
SpecSfx == Init /\ [][NextSfx]_vars

\* the sound-effect jobs on an event loop that runs every task that is
\* ready to run
SpecSfxFair ==
    SpecSfx /\ \A job_id \in 1..MaxJobs : WF_vars(JobStep(job_id))

\* the sound-effect jobs on such an event loop, with a transport that keeps
\* calling read() and the jobs of handle_callback run
SpecSfxPolled ==
    /\ SpecSfxFair
    /\ WF_vars(Read)
    /\ WF_vars(\E t \in BagToSet(tasks) : RunAfterPlay(t))

-----------------------------------------------------------------------------
(* Properties *)

AllTracks == tracks \o sfx

\* the signed 16-bit clamp, as the properties state it
Int16Clamp(x) ==
    IF x > 32767 THEN 32767 ELSE IF x < -32768 THEN -32768 ELSE x

\* the sample of a track k places after its position, 0 past its samples
SampleAt(track, k) ==
    IF track.pos + k <= Len(track.samples)
    THEN track.samples[track.pos + k] ELSE 0

RECURSIVE SumAt(_, _)
SumAt(list, k) ==
    IF list = <<>> THEN 0 ELSE SampleAt(Head(list), k) + SumAt(Tail(list), k)

\* list2 is list with one new track at its end, at position 0
AppendedTo(list, list2) ==
    /\ Len(list2) = Len(list) + 1
    /\ SubSeq(list2, 1, Len(list)) = list
    /\ list2[Len(list2)].pos = 0
    /\ list2[Len(list2)].id \notin Ids(AllTracks)

\* the tracks of _tracks whose on_complete is the queue's, for the head url
HeadTracks ==
    IF gid \in DOMAIN youtube_queue
    THEN {k \in 1..Len(tracks) :
            /\ tracks[k].after_play.kind = "after"
            /\ tracks[k].after_play.url = youtube_queue[gid][1]}
    ELSE {}

QueueOf(q) == IF gid \in DOMAIN q THEN q[gid] ELSE <<>>

\* C1, as the specification states it: after a read() of the paused mixer
\* the returned buffer is CHUNK_SIZE bytes of zeros, never empty.
C1_PausedReadIsSilence ==
    lastOp.name = "read_stopped" =>
        /\ ByteLen(out) = CHUNK_SIZE
        /\ \A k \in 1..Len(out) : out[k] = 0

\* C1, amended: a read() that finds the mixer paused returns at once with an
\* empty byte string (length 0), and leaves both collections and every
\* track's position as they were.
C1_PausedReadIsEmpty ==
    [][(stopped /\ ReadBegin) =>
          /\ readPc' = "idle"
          /\ out' = <<>>
          /\ ByteLen(out') = 0
          /\ tracks' = tracks
          /\ sfx' = sfx]_vars

\* a paused read() was made while a track was part-way through
C1_Witness ==
    /\ lastOp.name = "read_stopped"
    /\ stopped
    /\ out = <<>>
    /\ \E k \in 1..Len(AllTracks) : AllTracks[k].pos > 0

\* C2: sample k of the buffer of an unpaused read() is the 16-bit clamp of the
\* sum, over all sustained and overlay tracks, of the track's sample at
\* position + k, counted as 0 from the end of the track's samples on.
C2_MixingSum ==
    [][ReadMix =>
          /\ Len(out') = ChunkSamples
          /\ \A k \in 1..ChunkSamples :
                out'[k] = Int16Clamp(SumAt(AllTracks, k))]_vars

\* two tracks shorter than the chunk were mixed: their sum was clamped and
\* the padded slot is 0
C2_Witness ==
    /\ lastOp.name = "read"
    /\ Cardinality({k \in 1..Len(fired) :
                      fired[k].pos = 0 /\ fired[k].samples = <<20000>>}) >= 2
    /\ out[1] = 32767
    /\ out[ChunkSamples] = 0

\* C3: no track has its on_complete triggered more than once, and a read()
\* that meets a track of at most one chunk at position 0 triggers its
\* on_complete once and removes it from its collection.
C3_CompletionOnce ==
    [][/\ \A id \in DOMAIN afterCount' : afterCount'[id] <= 1
       /\ ReadMix =>
            \A k \in 1..Len(AllTracks) :
               LET track == AllTracks[k]
               IN  (track.pos = 0 /\ Len(track.samples) <= ChunkSamples) =>
                      /\ track.id \notin Ids(tracks') \cup Ids(sfx')
                      /\ afterCount'[track.id] = afterCount[track.id] +
                           (IF track.after_play.kind = "none" THEN 0 ELSE 1)
      ]_vars

\* a read() completed a track of one sample, and its on_complete was
\* triggered once
C3_Witness ==
    /\ lastOp.name = "read"
    /\ \E k \in 1..Len(fired) :
          /\ fired[k].pos = 0
          /\ Len(fired[k].samples) = 1
          /\ afterCount[fired[k].id] = 1
          /\ fired[k].id \notin Ids(AllTracks)

\* C4: skip_current_tracks() empties _tracks, calls the on_complete of each of
\* its tracks once, lets no exception of a callback out or stop the loop,
\* leaves _sfx alone, and does nothing on an empty _tracks.
C4_SkipSustained ==
    [][Skip =>
          /\ tracks' = <<>>
          /\ sfx' = sfx
          /\ ~lastOp'.escaped /\ ~lastOp'.raised
          /\ \A id \in DOMAIN afterCount :
                afterCount'[id] = afterCount[id] +
                   (IF \E k \in 1..Len(tracks) :
                         /\ tracks[k].id = id
                         /\ tracks[k].after_play.kind # "none"
                    THEN 1 ELSE 0)
          /\ lastOp'.caught =
                Cardinality({k \in 1..Len(tracks) :
                               tracks[k].after_play.kind = "raise"})
          /\ (tracks = <<>> =>
                UNCHANGED <<mixerVars, youtube_queue, tasks, afterCount>>)
      ]_vars

\* a skip called a callback that raised, and then the callback of a later
\* track, next to an overlay track that stayed
C4_Witness ==
    /\ lastOp.name = "skip"
    /\ lastOp.caught >= 1
    /\ \E i, j \in 1..Len(fired) :
          /\ i < j
          /\ fired[i].after_play.kind = "raise"
          /\ afterCount[fired[j].id] = 1
    /\ tracks = <<>>
    /\ sfx # <<>>

\* C5: clear_tracks() and clear_sfx() empty their own collection, trigger no
\* on_complete and leave the other collection as it was.
C5_ClearDropsSilently ==
    [][/\ ClearTracks =>
            /\ tracks' = <<>> /\ sfx' = sfx
            /\ afterCount' = afterCount /\ tasks' = tasks /\ fired' = <<>>
       /\ ClearSfx =>
            /\ sfx' = <<>> /\ tracks' = tracks
            /\ afterCount' = afterCount /\ tasks' = tasks /\ fired' = <<>>
      ]_vars

\* clear_sfx() dropped an overlay track that has an on_complete, which was
\* not triggered, while a sustained track was playing
C5_Witness ==
    /\ lastOp.name = "clear_sfx"
    /\ \E k \in 1..Len(lastOp.dropped) :
          /\ lastOp.dropped[k].after_play.kind # "none"
          /\ afterCount[lastOp.dropped[k].id] = 0
    /\ sfx = <<>>
    /\ tracks # <<>>

\* C6: a play_pcm() or play_file() that returns appends one new track at
\* position 0 to its collection, leaves the other collection alone and
\* leaves the mixer unpaused.
C6_EnqueueUnpauses ==
    [][/\ (\E s \in Sounds :
             PlayPcm(s.samples, s.before_play, s.after_play, TRUE)) =>
            /\ AppendedTo(tracks, tracks') /\ sfx' = sfx /\ ~stopped'
       /\ (\E s \in Sounds :
             PlayFile(s.samples, s.before_play, s.after_play, TRUE)) =>
            /\ AppendedTo(sfx, sfx') /\ tracks' = tracks /\ ~stopped'
      ]_vars

\* play_file() was called on a paused mixer that held a sustained track
C6_Witness ==
    /\ lastOp.name = "play_file"
    /\ ~lastOp.raised
    /\ lastOp.wasStopped
    /\ ~stopped
    /\ tracks # <<>>
    /\ sfx # <<>>
    /\ sfx[Len(sfx)].pos = 0

\* C7: every sample of a buffer returned by read() lies in -32768..32767.
C7_OutputInRange ==
    \A k \in 1..Len(out) : out[k] >= -32768 /\ out[k] <= 32767

\* a read() mixed two tracks whose first samples add up to 40000
C7_Witness ==
    /\ lastOp.name = "read"
    /\ Cardinality({k \in 1..Len(fired) :
                      fired[k].pos = 0 /\ fired[k].samples = <<20000>>}) >= 2
    /\ out[1] = MAX_VOLUME

C10_SkipAdvancesByOne ==
    [][(Skip /\ HeadTracks # {}) =>
          LET queue == youtube_queue[gid]
          IN  /\ lastOp'.popped = <<Head(queue)>>
              /\ QueueOf(youtube_queue') = Tail(queue)
              /\ (Tail(queue) = <<>>) = (gid \notin DOMAIN youtube_queue')
              /\ ~lastOp'.raised
      ]_vars

\* C11: clear_queue() on a guild that has a queue leaves the entry in place
\* with exactly its head in it; on a guild without a queue it changes
\* nothing.  In both cases the mixer is left as it was, no callback is
\* called and no task is created.
C11_ClearKeepsHead ==
    [][ClearQueue =>
          /\ IF gid \in DOMAIN youtube_queue
             THEN /\ youtube_queue[gid] # <<>>
                  /\ gid \in DOMAIN youtube_queue'
                  /\ youtube_queue'[gid] = <<youtube_queue[gid][1]>>
                  /\ Len(youtube_queue'[gid]) = 1
             ELSE youtube_queue' = youtube_queue
          /\ tracks' = tracks /\ sfx' = sfx /\ stopped' = stopped
          /\ tasks' = tasks
          /\ afterCount' = afterCount
          /\ fired' = <<>>
          /\ ~lastOp'.raised
      ]_vars

\* clear_queue() cut urls off the queue while a track was in the mixer
C11_Witness ==
    /\ lastOp.name = "clear_queue"
    /\ Len(lastOp.popped) >= 1
    /\ gid \in DOMAIN youtube_queue
    /\ Len(youtube_queue[gid]) = 1
    /\ tracks # <<>>

\* C12: after stop() the guild has no queue and _tracks is empty; stop()
\* calls no after_play and creates no _play_next; the queue is dropped also
\* when clear_tracks() or pause() raises, and stop() itself raises nothing.
C12_StopDiscards ==
    [][\A fault \in StopFaults :
          Stop(fault) =>
             /\ gid \notin DOMAIN youtube_queue'
             /\ tracks' = <<>>
             /\ afterCount' = afterCount
             /\ fired' = <<>>
             /\ tasks' = tasks
             /\ lastOp'.scheduled = 0
             /\ ~lastOp'.raised
      ]_vars

\* a stop() whose mixer raised dropped a queue of two and a playing track
C12_Witness ==
    /\ lastOp.name = "stop"
    /\ lastOp.caught = 1
    /\ lastOp.dropped # <<>>
    /\ gid \notin DOMAIN youtube_queue
    /\ tracks = <<>>
    /\ adds >= 2

\* C13: when the mixer, the fetch or the enqueue fails in _play_next, the
\* whole queue of the guild is removed, the exception is logged and goes no
\* further, no _play_next is created and the mixer is left as it was.
C13_PlayFailureDropsQueue ==
    [][\A t \in BagToSet(tasks) :
          PlayNextFinish(t, FALSE) =>
             /\ gid \notin DOMAIN youtube_queue'
             /\ tasks' = tasks (-) SetToBag({t})
             /\ lastOp'.caught = 1
             /\ ~lastOp'.raised
             /\ lastOp'.scheduled = 0
             /\ tracks' = tracks /\ sfx' = sfx /\ stopped' = stopped
      ]_vars

\* a failure of _play_next removed a queue of more than one url
C13_Witness ==
    /\ lastOp.name = "play_next"
    /\ lastOp.caught = 1
    /\ Len(lastOp.popped) >= 2
    /\ gid \notin DOMAIN youtube_queue

\* C14, as the specification states it: when the download or the transcode
\* of a prefetched url fails, that url, once, and nothing else is taken out
\* of the queue of the guild (the other urls keep their order), and the loop
\* goes on with the next url of its slice.
C14_PrefetchFailureRemovesUrl ==
    [][\A p \in Procs :
          (/\ calls[p].kind = "preload"
           /\ calls[p].pc \in {"download", "ffmpeg"}
           /\ Len(calls'[p].failed) > Len(calls[p].failed))
          => LET url == calls[p].url
                 queue == youtube_queue[gid]
             IN  /\ gid \in DOMAIN youtube_queue'
                 /\ \E k \in 1..Len(queue) :
                       /\ queue[k] = url
                       /\ youtube_queue'[gid] =
                            SubSeq(queue, 1, k - 1) \o
                            SubSeq(queue, k + 1, Len(queue))
                 /\ calls'[p].pc = "loop"
                 /\ calls'[p].idx = calls[p].idx + 1
      ]_vars

\* C15: _maybe_preload_next_tracks walks the queue positions 1, 2, ... of the
\* queue it was given and stops after position QUEUE_FORESIGHT or the end of
\* the queue; at each position it starts a download exactly when the cache
\* file of the url at that position does not exist.  Position 0 (the head)
\* and positions past QUEUE_FORESIGHT are never downloaded.
C15_PrefetchWindow ==
    [][\A p \in Procs :
          /\ PreloadBegin(p) =>
                /\ calls'[p].queue = youtube_queue[gid]
                /\ calls'[p].idx = 1
                /\ calls'[p].issued = {}
          /\ PreloadNext(p) =>
                LET c == calls[p]
                    d == calls'[p]
                IN  /\ c.idx >= 1
                    /\ d.issued \subseteq 1..QUEUE_FORESIGHT
                    /\ IF c.idx > QUEUE_FORESIGHT \/ c.idx + 1 > Len(c.queue)
                       THEN d.pc = "done" /\ d.issued = c.issued
                       ELSE IF GetCachePath(c.queue[c.idx + 1], DefaultFormat)
                                 \in DOMAIN files
                       THEN /\ d.pc = "loop" /\ d.idx = c.idx + 1
                            /\ d.issued = c.issued
                            /\ d.downloads = c.downloads
                       ELSE /\ d.pc = "download"
                            /\ d.url = c.queue[c.idx + 1]
                            /\ d.issued = c.issued \cup {c.idx}
                            /\ d.downloads = c.downloads + 1
      ]_vars

\* a prefetch on a queue that goes past the window ended: it downloaded for
\* some positions of the window and passed over a cached one
C15_Witness ==
    \E p \in Procs :
        /\ calls[p].kind = "preload"
        /\ calls[p].pc = "done"
        /\ Len(calls[p].queue) > QUEUE_FORESIGHT + 1
        /\ calls[p].issued # {}
        /\ calls[p].issued # 1..QUEUE_FORESIGHT

\* the calls that fetch the url and the format of in
FetchesOf(in) ==
    {p \in Procs : /\ calls[p].kind = "fetch"
                   /\ calls[p].url = in.url
                   /\ calls[p].fmt = in.fmt}

\* C16: when every call made is a fetch of one url and one format, without
\* credentials, on a cache that was empty, and no download, query or
\* transcode failed, then at most one download was started, and once all
\* calls have ended exactly one was, and every call returned the cache path.
C16_ConcurrentFetchDedup ==
    \A in \in FetchInputs :
        (/\ ~in.auth
         /\ FetchesOf(in) = Procs
         /\ \A p \in Procs : ~calls[p].auth /\ ~calls[p].fault)
        => /\ Cardinality({p \in Procs : calls[p].downloads > 0}) <= 1
           /\ \A p \in Procs : calls[p].downloads <= 1
           /\ (\A p \in Procs : calls[p].pc = "done") =>
                 /\ Cardinality({p \in Procs : calls[p].downloads = 1}) = 1
                 /\ \A p \in Procs :
                       calls[p].result = GetCachePath(in.url, in.fmt)

\* all calls fetched the same url, one of them waited for the lock, and all
\* have returned
C16_Witness ==
    \E in \in FetchInputs :
        /\ ~in.auth
        /\ FetchesOf(in) = Procs
        /\ \A p \in Procs : calls[p].pc = "done" /\ ~calls[p].fault
        /\ \A p \in Procs : calls[p].result = GetCachePath(in.url, in.fmt)
        /\ \E p \in Procs : calls[p].waited

\* C17: a fetch that is started after a fetch of the same url and format
\* has downloaded and returned, returns the same path at once: it does not
\* take the lock, starts no download, no query and no transcode, and leaves
\* the files as they are.
C17_SecondFetchCached ==
    [][\A p \in Procs, in \in FetchInputs :
          (/\ FetchBegin(p, in)
           /\ \E q \in FetchesOf(in) :
                 /\ calls[q].pc = "done"
                 /\ calls[q].downloads = 1
                 /\ calls[q].result = GetCachePath(in.url, in.fmt))
          => /\ calls'[p].pc = "done"
             /\ calls'[p].result = GetCachePath(in.url, in.fmt)
             /\ ~calls'[p].locked
             /\ calls'[p].downloads = 0
             /\ calls'[p].dl = "none" /\ calls'[p].md = "none"
             /\ download_locks' = download_locks
             /\ files' = files
      ]_vars

\* two fetches of one url and format have returned the same path; the one
\* downloaded, the other neither took the lock nor downloaded
C17_Witness ==
    \E p, q \in Procs :
        /\ p # q
        /\ calls[p].kind = "fetch" /\ calls[q].kind = "fetch"
        /\ calls[p].url = calls[q].url /\ calls[p].fmt = calls[q].fmt
        /\ calls[q].pc = "done" /\ calls[q].downloads = 1
        /\ calls[p].pc = "done" /\ calls[p].downloads = 0
        /\ ~calls[p].locked
        /\ calls[p].result = calls[q].result
        /\ calls[p].result = GetCachePath(calls[p].url, calls[p].fmt)

\* C18, as the specification states it: a fetch that is given credentials
\* raises NotImplementedError in its first step: it returns no path, starts
\* no download and no metadata query, and writes nothing.
C18_AuthFailsFirst ==
    [][\A p \in Procs, in \in FetchInputs :
          (FetchBegin(p, in) /\ in.auth)
          => /\ calls'[p].pc = "done"
             /\ calls'[p].result = Raised("NotImplementedError")
             /\ calls'[p].downloads = 0
             /\ ~calls'[p].queried
             /\ files' = files
             /\ metadata_cache' = metadata_cache
      ]_vars

\* C19, as the specification states it: once the only fetch made has
\* returned or raised, neither the opus nor the pcm temporary file of its
\* video exists.
C19_NoTempFilesAfterFetch ==
    \A p \in Procs :
        (/\ calls[p].kind = "fetch"
         /\ calls[p].pc = "done"
         /\ \A q \in Procs \ {p} : calls[q].pc = "idle")
        => /\ GetTempPaths(calls[p].url).opus \notin DOMAIN files
           /\ GetTempPaths(calls[p].url).pcm \notin DOMAIN files

\* C20, as the specification states it: a file that exists at a cache path
\* is complete: no transcoder is still writing to it.
C20_CacheFilesComplete ==
    \A path \in DOMAIN files : path[1] = "cached" => files[path] = {}

\* C21: when the download of a fetch fails or leaves no file, or its ffmpeg
\* exits with a non-zero status, the fetch raises RuntimeError, the lock of
\* its url is free again, and the step puts no file at the cache path of its
\* key; a fetch of the same key that is started afterwards, with the cache
\* path still absent, takes the lock and starts the download again.
C21_FailedFetchRetries ==
    [][\A p \in Procs :
          /\ (/\ calls[p].kind = "fetch"
              /\ \/ /\ calls[p].pc = "gather" /\ calls[p].dl = "run"
                    /\ calls'[p].dl = "failed"
                 \/ calls[p].pc = "ffmpeg" /\ TranscodeEnd(p, 1))
             => LET cache_path == GetCachePath(calls[p].url, calls[p].fmt)
                IN  /\ calls'[p].pc = "done"
                    /\ calls'[p].result = Raised("RuntimeError")
                    /\ download_locks'[calls[p].url] = 0
                    /\ cache_path \in DOMAIN files'
                          => cache_path \in DOMAIN files
                    /\ \A other \in Procs \ {p} : calls'[other] = calls[other]
          /\ \A in \in FetchInputs :
                (/\ FetchBegin(p, in)
                 /\ ~in.auth
                 /\ GetCachePath(in.url, in.fmt) \notin DOMAIN files
                 /\ \E q \in FetchesOf(in) :
                       /\ calls[q].pc = "done"
                       /\ calls[q].result = Raised("RuntimeError")
                 /\ \A q \in Procs :
                       calls[q].url = in.url => calls[q].pc \in {"idle", "done"})
                => /\ calls'[p].pc = "gather"
                   /\ calls'[p].downloads = 1
                   /\ download_locks'[in.url] = p
      ]_vars

\* a fetch raised RuntimeError and a fetch of the same key that was started
\* after it took the lock without waiting and downloaded again
C21_Witness ==
    \E p, q \in Procs :
        /\ q < p
        /\ calls[q].kind = "fetch" /\ calls[p].kind = "fetch"
        /\ calls[q].url = calls[p].url /\ calls[q].fmt = calls[p].fmt
        /\ calls[q].pc = "done"
        /\ calls[q].result = Raised("RuntimeError")
        /\ GetCachePath(calls[q].url, calls[q].fmt) \notin DOMAIN files
        /\ calls[p].downloads = 1
        /\ ~calls[p].waited

\* the calls of get_youtube_track_metadata that returned a record of video
MetaReturned(video) ==
    {p \in Procs : /\ calls[p].kind = "meta"
                   /\ calls[p].pc = "done"
                   /\ calls[p].md # "failed"
                   /\ IsValidYoutubeUrl(calls[p].url)
                   /\ GetVideoId(calls[p].url) = video}

\* the calls whose metadata query of video has ended with a record, and
\* those whose query is still running
QueriesEnded(video) ==
    {p \in Procs : /\ calls[p].queried /\ calls[p].md = "done"
                   /\ GetVideoId(calls[p].url) = video}
QueriesRunning(video) ==
    {p \in Procs : /\ calls[p].queried /\ calls[p].md = "run"
                   /\ GetVideoId(calls[p].url) = video}

C25_OneMixerPerGuild ==
    /\ [][\A vc \in 1..MaxConns :
            EnsureMixer(vc) =>
               LET g == conns[vc].guild
               IN  /\ ensured'.vc = vc
                   /\ IF g \in DOMAIN mixers
                      THEN /\ ensured'.mixer = mixers[g].id
                           /\ ~ensured'.created /\ ~ensured'.played
                           /\ ~ensured'.raised
                           /\ mixers' = mixers /\ conns' = conns
                      ELSE IF ensured'.raised
                      THEN mixers' = mixers /\ conns' = conns
                      ELSE /\ ensured'.created /\ ensured'.played
                           /\ DOMAIN mixers' = DOMAIN mixers \cup {g}
                           /\ mixers'[g].id = ensured'.mixer
                           /\ conns'[vc].source = ensured'.mixer
                           /\ \A h \in DOMAIN mixers :
                                 /\ mixers'[h] = mixers[h]
                                 /\ mixers[h].id # ensured'.mixer
        ]_vars
    /\ [](\A g, h \in DOMAIN mixers :
            g # h => mixers[g].id # mixers[h].id)
    /\ [](\A g \in DOMAIN mixers :
            Cardinality({c \in 1..Len(conns) :
                            conns[c].source = mixers[g].id}) <= 1)

\* both guilds have their mixer and the last ensure_mixer returned the one
\* that was there
C25_Witness ==
    /\ DOMAIN mixers = Guilds
    /\ ensured.op = "ensure_mixer"
    /\ ~ensured.created
    /\ ensured.mixer = mixers[conns[ensured.vc].guild].id

\* C28, as the specification states it: the mixer goes with its connection.
\* The mixer that ensure_mixer returns for a connected voice client is the
\* mixer of that voice client, and that voice client polls it.
C28_MixerFollowsConnection ==
    [][\A vc \in 1..MaxConns :
          (EnsureMixer(vc) /\ conns[vc].connected)
          => /\ ~ensured'.raised
             /\ mixers'[conns[vc].guild].vc = vc
             /\ conns'[vc].source = ensured'.mixer
      ]_vars

\* C26, as the specification states it: when the last active track completes
\* during a read() and both lists are empty after it, the mixer is stopped,
\* with no pause() and no clear call.
C26_StopsWhenEmpty ==
    [][(ReadMix /\ AllTracks # <<>> /\ tracks' = <<>> /\ sfx' = <<>>)
          => stopped']_vars

\* C27: every track of _tracks and _sfx has 0 <= pos <= len(samples), and
\* after the mixing pass of a read() no track is left in either list with
\* pos >= len(samples): a track whose position reaches the end in a pass,
\* a track without samples on its first pass included, is removed in it.
C27_PositionWithinSamples ==
    /\ [](\A k \in 1..Len(AllTracks) :
            /\ 0 <= AllTracks[k].pos
            /\ AllTracks[k].pos <= Len(AllTracks[k].samples))
    /\ [][ReadMix =>
            /\ \A k \in 1..Len(tracks') :
                  tracks'[k].pos < Len(tracks'[k].samples)
            /\ \A k \in 1..Len(sfx') :
                  sfx'[k].pos < Len(sfx'[k].samples)
            /\ \A k \in 1..Len(AllTracks) :
                  AllTracks[k].pos + ChunkSamples >= Len(AllTracks[k].samples)
                  => AllTracks[k].id \notin Ids(tracks') \cup Ids(sfx')
        ]_vars

\* a read() met a track without samples and a track longer than a chunk: the
\* first is gone, the second is kept at a position before its end
C27_Witness ==
    /\ lastOp.name = "read"
    /\ \E k \in 1..Len(fired) : fired[k].samples = <<>>
    /\ \E k \in 1..Len(AllTracks) :
          /\ AllTracks[k].pos = ChunkSamples
          /\ AllTracks[k].pos < Len(AllTracks[k].samples)

\* C29, as the specification states it: with normalisation enabled, the
\* factor of a track is computed when the track is enqueued.  After a
\* play_pcm() or play_file() that enqueued a track, the track has its factor
\* in _track_norm_factors.
C29_FactorAtEnqueue ==
    [][(normalise_audio /\ nextId' = nextId + 1)
          => nextId \in DOMAIN track_norm_factors']_vars

\* C30, as the specification states it: computing the factor of a silent
\* track raises nothing and stores the factor 1, under both policies.
C30_SilentTrackFactorOne ==
    [][\A k \in 1..MaxEnq, approach \in Approaches :
          (/\ ComputeNormalisationFactor(k, approach)
           /\ (tracks \o sfx)[k].samples # <<>>
           /\ \A j \in 1..Len((tracks \o sfx)[k].samples) :
                 (tracks \o sfx)[k].samples[j] = 0)
          => /\ ~lastOp'.raised
             /\ (tracks \o sfx)[k].id \in DOMAIN track_norm_factors'
             /\ track_norm_factors'[(tracks \o sfx)[k].id] = 1
      ]_vars

\* the jobs whose remove_job has returned, from a command or from
\* stop_all_jobs
RemovedJobs ==
    UNION {removers[r].removed : r \in 1..Len(removers)}

JobAt(job_id, pc) ==
    IF job_id \in DOMAIN job_tasks THEN job_tasks[job_id].pc = pc ELSE FALSE

\* C24: a job whose loop finds its voice client disconnected at the top of
\* an iteration, or whose attempt to get the mixer and play the file raises,
\* enqueues nothing in that step and starts to remove itself; a job that
\* removes itself enqueues nothing more, and it ends with its entry deleted
\* and its loop returned.
C24_JobRemovesItself ==
    /\ [][\A job_id \in DOMAIN job_tasks :
            /\ ((JobStart(job_id) \/ JobWake(job_id))
                  /\ ~conns[job_tasks[job_id].vc].connected)
               => /\ job_tasks'[job_id].pc = "self_remove"
                  /\ job_tasks'[job_id].enqueued = job_tasks[job_id].enqueued
            /\ \A awaitable \in Awaitables, decoded \in BOOLEAN :
                  (/\ JobPlay(job_id, awaitable, decoded)
                   /\ \/ awaitable = "TypeError"
                      \/ ~decoded
                      \/ EnsureMixerOn(mixers, conns,
                                       job_tasks[job_id].vc).ensured.raised)
                  => /\ job_tasks'[job_id].pc = "self_remove"
                     /\ job_tasks'[job_id].enqueued =
                          job_tasks[job_id].enqueued
                     /\ sfx' = sfx
            /\ job_tasks[job_id].pc \in {"self_remove", "returned"}
               => /\ job_tasks'[job_id].enqueued = job_tasks[job_id].enqueued
                  /\ \/ job_tasks'[job_id].pc = "self_remove"
                     \/ /\ job_tasks'[job_id].pc = "returned"
                        /\ job_id \notin DOMAIN loop_jobs'
        ]_vars
    /\ \A job_id \in 1..MaxJobs :
          JobAt(job_id, "self_remove")
          ~> (JobAt(job_id, "returned") /\ job_id \notin DOMAIN loop_jobs)

\* a job played its sound once, then removed itself: its loop has returned
\* and no remove_job of a command removed it
C24_Witness ==
    \E job_id \in DOMAIN job_tasks :
       /\ job_tasks[job_id].pc = "returned"
       /\ job_tasks[job_id].enqueued >= 1
       /\ job_id \notin DOMAIN loop_jobs
       /\ job_id \notin RemovedJobs

\* call p ends its transcoding in this step with "pcm_tmp.replace(cache_path)"
MovesToCache(p) ==
    /\ calls[p].pc = "ffmpeg"
    /\ calls'[p].pc # "ffmpeg"
    /\ GetTempPaths(calls[p].url).pcm \in DOMAIN files
    /\ GetTempPaths(calls[p].url).pcm \notin DOMAIN files'
    /\ GetCachePath(calls[p].url, calls[p].fmt) \in DOMAIN files'
    /\ IF calls[p].kind = "fetch"
       THEN calls'[p].result = GetCachePath(calls[p].url, calls[p].fmt)
       ELSE calls'[p].failed = calls[p].failed

\* C31, as the specification states it: a cache file that exists stays, and
\* no fetch and no prefetch moves a file over it.
C31_CacheFileNeverReplaced ==
    [][\A path \in DOMAIN files :
          path[1] = "cached"
          => /\ path \in DOMAIN files'
             /\ \A p \in Procs :
                   MovesToCache(p)
                   => GetCachePath(calls[p].url, calls[p].fmt) # path
      ]_vars

\* the tracks of the mixer that a _play_next enqueued
QueueDriven == SelectSeq(tracks, LAMBDA track : track.after_play.kind = "after")

\* the _after_play jobs that are waiting to run
PendingAfterPlay == {t \in BagToSet(tasks) : t.type = "job" /\ t.cb.kind = "after"}

\* C32, as the specification states it: on a guild that is only added to and
\* whose fetches succeed, a url is handed to the mixer only after the
\* on_complete of the url handed over before it has run: when a _play_next
\* enqueues its track, the mixer holds no track of the queue and no
\* _after_play is waiting to run.
C32_HandOverAfterCompletion ==
    [][\A t \in BagToSet(tasks) :
          PlayNextFinish(t, TRUE)
          => /\ QueueDriven = <<>>
             /\ PendingAfterPlay = {}
      ]_vars

\* C33, as the specification states it: the mixer never holds more than one
\* track of the queue at a time, whatever the order of add, skip, clear, stop
\* and the _play_next tasks.
C33_OneQueueDrivenTrack == Len(QueueDriven) <= 1

\* C34, as the specification states it: when the _after_play created for a url
\* runs, the queue of the guild exists and its head is that url.
C34_AfterPlayFindsItsUrl ==
    [][\A t \in BagToSet(tasks) :
          (RunJob(t) /\ t.cb.kind = "after")
          => /\ gid \in DOMAIN youtube_queue
             /\ youtube_queue[gid] # <<>>
             /\ Head(youtube_queue[gid]) = t.cb.url
      ]_vars

\* C35, as the specification states it: once stop() has returned, no
\* _play_next started before it enqueues a url of the discarded queue: the
\* step that follows stop() is never the enqueue of a _play_next that was
\* awaiting its fetch.
C35_NothingEnqueuedAfterStop ==
    [][\A t \in BagToSet(tasks) :
          (lastOp.name = "stop" /\ t.type = "play_next" /\ t.stage = "fetching")
          => ~PlayNextFinish(t, TRUE)
      ]_vars

\* C36, as the specification states it: the on_start of a track has run when
\* its on_complete starts: no job of an after_play runs while the job of the
\* before_play of the same track is still waiting.
C36_BeforePlayRunsFirst ==
    [][\A t \in BagToSet(tasks) :
          (RunJob(t) /\ t.stage = "after_play")
          => \A u \in BagToSet(tasks) :
                ~(u.type = "job" /\ u.stage = "before_play" /\ u.id = t.id)
      ]_vars

\* call p has a downloader or an ffmpeg running
InFlight(p) ==
    \/ calls[p].kind = "fetch" /\ (calls[p].dl = "run" \/ calls[p].pc = "ffmpeg")
    \/ calls[p].kind = "preload" /\ calls[p].pc \in {"download", "ffmpeg"}

\* C37, as the specification states it: a prefetch and a fetch of the same
\* url never have their downloads or transcodes in flight at the same time.
C37_PrefetchExcludesFetch ==
    \A p, q \in Procs :
        (/\ calls[p].kind = "preload"
         /\ calls[q].kind = "fetch"
         /\ calls[p].url = calls[q].url)
        => ~(InFlight(p) /\ InFlight(q))

\* C38, as the specification states it: two fetches whose urls differ as
\* strings and name the same video never have their downloads or transcodes
\* in flight at the same time.
C38_AliasUrlsExcluded ==
    \A p, q \in Procs :
        (/\ p # q
         /\ calls[p].kind = "fetch"
         /\ calls[q].kind = "fetch"
         /\ calls[p].url # calls[q].url
         /\ GetVideoId(calls[p].url) = GetVideoId(calls[q].url))
        => ~(InFlight(p) /\ InFlight(q))

\* job_id waits for the done_event of a track it enqueued, and nothing has
\* cancelled it
Waiting(job_id) ==
    IF job_id \in DOMAIN job_tasks
    THEN job_tasks[job_id].pc = "wait" /\ ~job_tasks[job_id].cancelling
    ELSE FALSE

\* C39, as the specification states it: with a transport that keeps calling
\* read(), an iteration of a job that enqueued its sound and is not removed
\* sees its done_event set and goes on, whatever is done to the mixer in
\* between.
C39_IterationSeesCompletion ==
    \A job_id \in 1..MaxJobs : Waiting(job_id) ~> ~Waiting(job_id)

\* the on_complete of a track that left its collection was called or
\* dispatched in this step, once, when the track has one
CompletionInvoked(track) ==
    afterCount'[track.id] =
       afterCount[track.id] + (IF track.after_play.kind = "none" THEN 0 ELSE 1)

\* list is the front of list2
IsPrefix(list, list2) ==
    /\ Len(list) <= Len(list2)
    /\ SubSeq(list2, 1, Len(list)) = list

\* C40: under any interleaving of read() with play_pcm, play_file,
\* skip_current_tracks and the clears, no track is duplicated (the ids of the
\* tracks in the two collections are all different) and none is lost: a track
\* enters a collection only by an enqueue, which appends it and keeps the
\* tracks that are there, also when a read() is between its test of
\* is_stopped and its mixing pass; a track leaves its collection only when a
\* mixing pass finished it or a skip removed it, with its on_complete invoked,
\* or when its collection was cleared; and a mixing pass keeps every track it
\* did not finish, in its own collection.
C40_NoTrackLostOrDuplicated ==
    /\ [](\A i, j \in 1..Len(AllTracks) :
             i # j => AllTracks[i].id # AllTracks[j].id)
    /\ [](Ids(AllTracks) \subseteq 1..(nextId - 1))
    /\ [][/\ Ids(tracks') \subseteq Ids(tracks) \cup {nextId}
          /\ Ids(sfx') \subseteq Ids(sfx) \cup {nextId}
          /\ (\E s \in Sounds :
                 PlayPcm(s.samples, s.before_play, s.after_play, TRUE))
             => /\ IsPrefix(tracks, tracks')
                /\ Len(tracks') = Len(tracks) + 1
                /\ tracks'[Len(tracks')].id = nextId
                /\ sfx' = sfx
          /\ (\E s \in Sounds :
                 PlayFile(s.samples, s.before_play, s.after_play, TRUE))
             => /\ IsPrefix(sfx, sfx')
                /\ Len(sfx') = Len(sfx) + 1
                /\ sfx'[Len(sfx')].id = nextId
                /\ tracks' = tracks
          /\ \A k \in 1..Len(tracks) :
                tracks[k].id \notin Ids(tracks')
                => \/ /\ ReadMix
                      /\ Finished(tracks[k].pos + ChunkSamples,
                                  tracks[k].samples)
                      /\ CompletionInvoked(tracks[k])
                   \/ Skip /\ CompletionInvoked(tracks[k])
                   \/ ClearTracks
          /\ \A k \in 1..Len(sfx) :
                sfx[k].id \notin Ids(sfx')
                => \/ /\ ReadMix
                      /\ Finished(sfx[k].pos + ChunkSamples, sfx[k].samples)
                      /\ CompletionInvoked(sfx[k])
                   \/ ClearSfx
      ]_vars

\* a read() is between its test of is_stopped and its mixing pass, on a mixer
\* that holds a track in each collection, and the track that a play_pcm() has
\* just enqueued is the last of _tracks, behind the one that was there
C40_Witness ==
    /\ readPc = "mix"
    /\ lastOp.name = "play_pcm"
    /\ ~lastOp.raised
    /\ Len(tracks) >= 2
    /\ sfx # <<>>
    /\ tracks[Len(tracks)].id = nextId - 1
    /\ tracks[Len(tracks)].pos = 0
    /\ tracks[1].pos > 0

====
